---- MODULE Spec2Model ----
(***************************************************************************)
(* Tool connection reconciliation flow of the chat application.            *)
(*                                                                         *)
(* Three client components start OAuth connection attempts and follow      *)
(* them:                                                                   *)
(*   "card"   ToolCard of the toolbar         (components/toolbar.tsx)      *)
(*   "panel"  ToolActivation, polling variant (lib/tool-activation-parser)  *)
(*   "inline" ToolActivation, variant without polling (lib/ai/prompts.ts)   *)
(* The browser is one event loop: every action below is one handler, timer  *)
(* callback or continuation after an await, run to completion.             *)
(* Timers are kept as pending counts and fire in any order the delays       *)
(* allow; network responses arrive in any order.                            *)
(*                                                                         *)
(* The components share no client state: they meet only in the external    *)
(* registry and on the window event bus.  A run follows the attempts that   *)
(* the user starts from one of them (scene); the other components stay as   *)
(* constructed.                                                            *)
(***************************************************************************)
EXTENDS Integers, Sequences, FiniteSets, TLC

\* ---------------------------------------------------------------- bounds
MaxConn == 2        \* connection attempts initiated in one run
MaxPolls == 3       \* status requests issued for one connection attempt
MaxRequests == 1    \* chat requests sent in one run
MaxAccounts == 2    \* connected accounts the platform lists for the user
MaxTokens == 4      \* tokens of a message made of arbitrary tokens
MaxSegments == 3    \* segments of a message made of segments
MaxIssued == 5      \* registry fetches of the chat in flight, in order of issue
MaxChats == 2       \* chat ids
MaxUsers == 2       \* signed-in users
MaxPosts == 4       \* chat POST requests handled in one run
MaxMessagesPerDay == 1  \* entitlementsByUserType[userType].maxMessagesPerDay
MaxChatMessages == 2    \* largest MAX_CHAT_MESSAGES configured
MaxUserRows == 2    \* rows of the User table
MaxGithubIds == 1   \* GitHub accounts that sign in
MaxGoogleIds == 1   \* Google accounts that sign in
MaxCalls == 2       \* calls of the user queries running at the same time
MaxRetries == 3     \* largest maxRetries given to withRetry (its default)

\* ------------------------------------------------------------- constants
Slugs == {"GMAIL", "GITHUB"}

\* toolbar.tsx TOOLKIT_AUTH_CONFIG: the slugs the table has a key for (the
\* slugs whose environment variable is set are the variable env)
TOOLKIT_AUTH_CONFIG ==
  {"GMAIL", "GOOGLECALENDAR", "GITHUB", "NOTION", "SLACK", "LINEAR"}

\* ToolActivation's TOOLKIT_AUTH_CONFIG (both variants)
PANEL_TOOLKIT_AUTH_CONFIG ==
  {"GMAIL", "GOOGLECALENDAR", "GITHUB", "NOTION", "SLACK", "LINEAR",
   "GOOGLESHEETS", "CONFLUENCE", "OUTLOOK", "MICROSOFT_TEAMS", "JIRA"}

\* requiredTools prop of ToolActivation: the tools the assistant asked for
RequiredTools == Slugs

ConnIds == 1..MaxConn

\* POST /api/chat: chat ids, message ids, and the callers: the signed-in
\* users and 0 for a request without a session
ChatIds == 1..MaxChats
MessageIds == 1..MaxPosts
Users == 1..MaxUsers
Callers == 0..MaxUsers

\* status values of the external connection (status/route.ts
\* ConnectionStatus).  INITIALIZING takes the same branch as INITIATED in
\* both pollers (a shared case label in the card, the final else in the
\* panel); the responses drawn below use INITIATED for both.
NonTerminal == {"INITIATED"}
Terminal == {"ACTIVE", "FAILED", "EXPIRED"}
ConnectionStatus == NonTerminal \cup Terminal

\* what a status request can come back with: a status, a thrown fetch
\* (network error) or a response that is not ok
NETERR == "NETERR"
HTTPERR == "HTTPERR"
Responses == ConnectionStatus \cup {NETERR, HTTPERR}

Scenes == {"toolbar", "panel", "inline"}

VARIABLES
  scene,       \* the component whose attempts the run follows
  conn,        \* per connection id: the attempt and its polling chain
  nextConn,    \* next connection id the external platform hands out
  initReq,     \* initiate requests in flight, counted per <<comp, slug, live>>
  card,        \* per slug: the mounted ToolCard instance's state
  tb,          \* ToolbarDesktop: isLoading, fetchError, toolkits, fetches
  enabledTools, \* ToolbarProvider.enabledTools
  panel,       \* ToolActivation (polling variant) state
  inl,         \* ToolActivation (variant without polling) state
  events,      \* 'toolConnected' events dispatched on window, in order
  env,         \* slugs whose auth configuration variable is set
  configErrors, \* <<component, slug>> shown the 'Configuration error' toast
  chat,        \* Chat: enabledToolkits, toolkitsLoaded, registry fetches
  llm,         \* the chat requests sent and the tools the route handed on
  message,     \* parseToolActivationMessage: the message text, as tokens
  availableTools, \* parseToolActivationMessage: slugs of the known tools
  parsed,      \* what the parser calls under study returned
  reg,         \* GET /api/toolkits: what the platform answers, the response
  enabledToolkitsWithStatus, \* ToolbarProvider: enabled slug -> isConnected
  db,          \* the chat, message and stream tables
  post,        \* POST /api/chat: the configuration and the last answer
  user,        \* the User table, its constraint, the queries running on it
  retry        \* withRetry: maxRetries, the attempt, what the operation does

\* the connection flow's variables, and the variables of the parts beside it
flow == <<scene, conn, nextConn, initReq, card, tb, enabledTools, panel,
          inl, events>>
\* the variables of the parts added to the ones above
aside == <<user, retry>>
more == <<db, post, aside>>
rest == <<enabledToolkitsWithStatus, more>>
beside == <<env, configErrors, chat, llm, message, availableTools, parsed,
            reg, rest>>
\* beside, but for the toolbar's status map
offStatus == <<env, configErrors, chat, llm, message, availableTools, parsed,
               reg, more>>
\* beside, but for the chat
offChat == <<env, configErrors, llm, message, availableTools, parsed, reg,
             rest>>
\* everything but the User table, everything but withRetry
offUser == <<flow, env, configErrors, chat, llm, message, availableTools,
             parsed, reg, enabledToolkitsWithStatus, db, post, retry>>
offRetry == <<flow, env, configErrors, chat, llm, message, availableTools,
              parsed, reg, enabledToolkitsWithStatus, db, post, user>>
vars == <<flow, beside>>

\* --------------------------------------------------------------- helpers
NoConn ==
  [comp |-> "none", slug |-> "", live |-> FALSE,
   firstTimer |-> 0, pollTimer |-> 0, req |-> 0, polls |-> 0,
   polled |-> <<>>, outcome |-> "none", notified |-> 0,
   resetTimer |-> 0, timedOut |-> FALSE]

NoRef == [cid |-> 0, k |-> 0]

\* an initiate request is issued by a component for a slug; live tells
\* whether the component instance that issued it is still mounted
InitKeys == {"card", "panel", "inline"} \X Slugs \X BOOLEAN

\* a freshly mounted ToolCard (the useState/useRef initial values);
\* cancelled is history: Cancel was pressed and no attempt was started since
FreshCard ==
  [mounted |-> TRUE, connectionStatus |-> "idle", activeConnectionId |-> 0,
   pollingTimeoutRef |-> NoRef, isConnecting |-> FALSE,
   isDialogOpen |-> FALSE, cancelled |-> FALSE]

NoCard == [FreshCard EXCEPT !.mounted = FALSE]

\* the connected accounts the platform lists for the user: every account
\* created by an initiate call
Accounts == {c \in ConnIds : conn[c].comp # "none"}

\* GET /api/toolkits: isConnected = a connected account exists for the slug
RegistryIsConnected(s) == \E c \in Accounts : conn[c].slug = s

\* POST /api/chat: the slugs of the toolkits the registry reports connected;
\* their tools are the ones handed to the model
ConnectedToolkitSlugs == {s \in Slugs : RegistryIsConnected(s)}

\* the model can act with the tools of toolkit s
IsActionable(s) == s \in ConnectedToolkitSlugs

\* status checks of connection c that are in flight or scheduled
Pending(c) == conn[c].firstTimer + conn[c].pollTimer + conn[c].req

\* the connection flow as the components construct it
InitFlow ==
  /\ scene \in Scenes
  /\ conn = [c \in ConnIds |-> NoConn]
  /\ nextConn = 1
  /\ initReq = [k \in InitKeys |-> 0]
  /\ card = [s \in Slugs |-> NoCard]
  /\ tb = [isLoading |-> TRUE, fetchError |-> FALSE, loaded |-> FALSE,
           toolkits |-> [s \in Slugs |-> FALSE],
           fetches |-> IF scene = "toolbar" THEN 1 ELSE 0,
           errTimers |-> 0]
  /\ enabledTools = {}
  /\ panel = [connectionStatus |-> [s \in Slugs |-> "none"],
              connectingTools |-> {},
              currentToolStatus |-> [s \in Slugs |-> "undef"],
              refreshTimers |-> 0,
              fetches |-> IF scene = "panel" THEN 1 ELSE 0]
  /\ inl = [connectionStatus |-> [s \in Slugs |-> "none"],
            connectingTools |-> {},
            currentToolStatus |-> [s \in Slugs |-> "undef"],
            resetTimers |-> [s \in Slugs |-> 0],
            fetches |-> IF scene = "inline" THEN 1 ELSE 0]
  /\ events = <<>>

\* the parts added last, at rest: no toolkit enabled
NoMessage == [chat |-> 0, recent |-> FALSE]
EmptyDb ==
  [chats |-> [c \in ChatIds |-> 0],
   messages |-> [m \in MessageIds |-> NoMessage],
   streams |-> [c \in ChatIds |-> 0]]
NoPost ==
  [maxMessages |-> 1, handled |-> 0, caller |-> 0, id |-> 0, bodyOk |-> TRUE,
   response |-> "none", context |-> 0, streamed |-> FALSE]
UserRows == 1..MaxUserRows
GithubIds == 1..MaxGithubIds
GoogleIds == 1..MaxGoogleIds
Calls == 1..MaxCalls
\* a row that is not in the table; githubId, googleId 0 is NULL; guestEmail
\* is: email like 'guest-%'
NoRow == [present |-> FALSE, githubId |-> 0, googleId |-> 0,
          guestEmail |-> FALSE]
NoCall == [op |-> "none", pc |-> "idle", guestUserId |-> 0, id |-> 0,
           email |-> FALSE, result |-> "none"]
NoUsers ==
  [unique_github_id |-> FALSE,
   table |-> [u \in UserRows |-> NoRow],
   calls |-> [p \in Calls |-> NoCall]]
Outcomes == {"ok", "connection", "other"}
NoRetry ==
  [maxRetries |-> MaxRetries, plan |-> <<>>, attempt |-> 1, calls |-> 0,
   pc |-> "idle", lastError |-> "null", settled |-> "none"]
InitAside ==
  /\ user = NoUsers
  /\ retry = NoRetry
InitMore ==
  /\ db = EmptyDb
  /\ post = NoPost
  /\ InitAside
InitRest ==
  /\ enabledToolkitsWithStatus = [s \in Slugs |-> "none"]
  /\ InitMore

\* the parts beside the flow at rest: every configuration variable set, no
\* chat mounted, nothing given to the parser or to the registry route
NoParsed ==
  [called |-> FALSE, result |-> [isNull |-> TRUE, requiredTools |-> <<>>,
                                 message |-> <<>>],
   reparsed |-> FALSE, markers |-> 0,
   again |-> [isNull |-> TRUE, requiredTools |-> <<>>, message |-> <<>>],
   tested |-> FALSE, has |-> FALSE]
NoReg == [asked |-> FALSE, lookupOk |-> TRUE, accounts |-> <<>>, getOk |-> {},
          status |-> 0, toolkits |-> <<>>]
FetchKinds == {"mount", "fallback", "manual", "refresh"}
\* inflight holds the registry fetches not yet answered, each with its
\* kind, its place in the order of issue, and, once the registry route has
\* served it, the connected slugs it read.  issued and applied are history:
\* the fetches issued while some fetch is in flight, and the place in that
\* order of the fetch whose response set enabledToolkits last
NoChat == [mounted |-> FALSE, enabledToolkits |-> {}, toolkitsLoaded |-> FALSE,
           inflight |-> {}, issued |-> 0, manualTimer |-> 0, applied |-> 0]
InitBeside ==
  /\ env = Slugs
  /\ configErrors = {}
  /\ InitRest
  /\ chat = NoChat
  /\ llm = <<>>
  /\ message = <<>>
  /\ availableTools = {}
  /\ parsed = NoParsed
  /\ reg = NoReg

Init == InitFlow /\ InitBeside

RECURSIVE SumReq(_, _)
SumReq(rq, K) ==
  IF K = {} THEN 0
  ELSE LET k == CHOOSE x \in K : TRUE IN rq[k] + SumReq(rq, K \ {k})

InitInFlight == SumReq(initReq, InitKeys)

\* a further attempt fits the bound of the model
CanInitiate == nextConn + InitInFlight <= MaxConn

\* a table whose every slug passes the guard, whatever the environment
AuthConfigNotChecked(table, s) == TRUE

\* const authConfigId = TOOLKIT_AUTH_CONFIG[slug.toUpperCase()];
\* !authConfigId is false: the table has the slug and its environment
\* variable is set (an unset variable gives '')
HasAuthConfig(table, s) == s \in table /\ s \in env

\* ------------------------------------------------ toolbar: card mounting
\* ToolbarDesktop renders the ToolCards only when it is neither loading nor
\* showing the fetch error; the list is empty until a fetch has succeeded
ShouldRender(t) == t.loaded /\ ~t.isLoading /\ ~t.fetchError

\* the timer whose id a pollingTimeoutRef holds is still pending
RefPending(cn, r) ==
  r.cid # 0 /\ cn[r.cid].pollTimer > 0 /\ cn[r.cid].polls = r.k

\* clearTimeout(pollingTimeoutRef.current)
ClearTimeout(cn, r) ==
  IF RefPending(cn, r) THEN [cn EXCEPT ![r.cid].pollTimer = @ - 1] ELSE cn

\* unmount cleanup of the cards of the slugs in S: each clears the timer in
\* its ref; the chains those instances started lose their component
UnmountConn(cn, cd, S) ==
  [c \in ConnIds |->
     LET r == cd[cn[c].slug].pollingTimeoutRef
         mine == cn[c].comp = "card" /\ cn[c].slug \in S
     IN IF ~mine THEN cn[c]
        ELSE [cn[c] EXCEPT
                !.pollTimer = IF cn[c].live /\ r.cid = c /\ RefPending(cn, r)
                              THEN @ - 1 ELSE @,
                !.live = FALSE]]

UnmountInitReq(rq, S) ==
  [k \in InitKeys |->
     IF k[1] = "card" /\ k[2] \in S
     THEN (IF k[3] THEN 0 ELSE rq[<<"card", k[2], TRUE>>] + rq[k])
     ELSE rq[k]]

\* the cards after ToolbarDesktop re-renders from state t: cards that are no
\* longer rendered unmount, cards rendered again mount with fresh state, and
\* a mounted card whose toolkit turned connected resets itself (the
\* [toolkit.isConnected] effect)
RenderCards(cd, told, t) ==
  [s \in Slugs |->
     IF ~ShouldRender(t) THEN NoCard
     ELSE IF ~cd[s].mounted THEN FreshCard
     ELSE IF t.toolkits[s] /\ ~told.toolkits[s]
          THEN [cd[s] EXCEPT !.connectionStatus = "idle",
                             !.activeConnectionId = 0]
          ELSE cd[s]]

Unmounted(cd, t) == {s \in Slugs : cd[s].mounted /\ ~ShouldRender(t)}

\* fetchToolkits up to its await
StartFetchToolkits(t) ==
  [t EXCEPT !.isLoading = TRUE, !.fetchError = FALSE, !.fetches = @ + 1]

\* enabledToolkitsWithStatus is kept as slug -> "true" / "false", "none"
\* for a slug the Map has no entry for
MapHas(m, s) == m[s] # "none"
MapValue(b) == IF b THEN "true" ELSE "false"

\* fetchToolkits after the await, response ok: the list is set and the
\* entries of the status map are given the values of the list
ToolkitsResponseOk ==
  /\ tb.fetches > 0
  /\ LET t == [tb EXCEPT !.fetches = @ - 1, !.loaded = TRUE,
                         !.isLoading = FALSE,
                         !.toolkits = [s \in Slugs |-> RegistryIsConnected(s)]]
     IN /\ tb' = t
        /\ card' = RenderCards(card, tb, t)
        /\ conn' = UnmountConn(conn, card, Unmounted(card, t))
        /\ initReq' = UnmountInitReq(initReq, Unmounted(card, t))
        /\ enabledToolkitsWithStatus' =
             [s \in Slugs |->
                IF MapHas(enabledToolkitsWithStatus, s)
                THEN MapValue(t.toolkits[s])
                ELSE enabledToolkitsWithStatus[s]]
  /\ UNCHANGED <<offStatus, scene, nextConn, enabledTools, panel, inl, events>>

\* fetchToolkits after the await, fetch failed or response not ok
ToolkitsResponseFail ==
  /\ tb.fetches > 0
  /\ LET t == [tb EXCEPT !.fetches = @ - 1, !.fetchError = TRUE,
                         !.errTimers = @ + 1, !.isLoading = FALSE]
     IN /\ tb' = t
        /\ card' = RenderCards(card, tb, t)
        /\ conn' = UnmountConn(conn, card, Unmounted(card, t))
        /\ initReq' = UnmountInitReq(initReq, Unmounted(card, t))
  /\ UNCHANGED <<beside, scene, nextConn, enabledTools, panel,
                 inl, events>>

\* setTimeout(() => setFetchError(null), 3000)
FetchErrorTimerFires ==
  /\ tb.errTimers > 0
  /\ LET t == [tb EXCEPT !.errTimers = @ - 1, !.fetchError = FALSE]
     IN /\ tb' = t
        /\ card' = RenderCards(card, tb, t)
        /\ conn' = UnmountConn(conn, card, Unmounted(card, t))
        /\ initReq' = UnmountInitReq(initReq, Unmounted(card, t))
  /\ UNCHANGED <<beside, scene, nextConn, enabledTools, panel,
                 inl, events>>

\* the card of slug s shows 'checking' for attempt c
CardIsChecking(s, c) ==
  /\ card[s].mounted /\ card[s].connectionStatus = "checking"
  /\ card[s].activeConnectionId = c

\* handleToggle(toolSlug, enabled, toolkit.isConnected): the switch of a
\* rendered card flips the slug in enabledTools and sets or deletes its
\* entry of the status map
HandleToggle(s) ==
  /\ scene = "toolbar"
  /\ card[s].mounted
  /\ enabledTools' = IF s \in enabledTools THEN enabledTools \ {s}
                     ELSE enabledTools \cup {s}
  /\ enabledToolkitsWithStatus' =
       [enabledToolkitsWithStatus EXCEPT
          ![s] = IF s \in enabledTools THEN "none"
                 ELSE MapValue(tb.toolkits[s])]
  /\ UNCHANGED <<offStatus, scene, conn, nextConn, initReq, card, tb, panel, inl, events>>

\* useToolbarState().setState(updater): enabledTools is replaced by the
\* set the updater gives; setEnabledToolkitsWithStatus is not called
SetState(newEnabledTools) ==
  /\ scene = "toolbar"
  /\ newEnabledTools # enabledTools
  /\ enabledTools' = newEnabledTools
  /\ UNCHANGED <<beside, scene, conn, nextConn, initReq, card, tb, panel, inl, events>>

\* ------------------------------------------------------ toolbar: ToolCard
\* which branch of the card footer is rendered
Busy(s) == card[s].connectionStatus \in {"connecting", "checking"}
ShowsConnected(s) ==
  ~Busy(s) /\ (card[s].connectionStatus = "active" \/ tb.toolkits[s])
ShowsRetry(s) ==
  /\ ~Busy(s) /\ ~ShowsConnected(s)
  /\ card[s].connectionStatus \in {"failed", "expired"}
ShowsDialog(s) ==
  card[s].mounted /\ ~Busy(s) /\ ~ShowsConnected(s) /\ ~ShowsRetry(s)

\* the Try Again button
CardTryAgain(s) ==
  /\ scene = "toolbar"
  /\ card[s].mounted /\ ShowsRetry(s) /\ s \in enabledTools
  /\ card' = [card EXCEPT ![s].connectionStatus = "idle",
                          ![s].isDialogOpen = TRUE]
  /\ UNCHANGED <<beside, scene, conn, nextConn, initReq, tb, enabledTools, panel, inl, events>>

\* handleConnect up to its await (the user is signed in).  The button sits
\* in the dialog: the dialog is open already, or the user opens it with the
\* Connect trigger, which is disabled unless the tool is enabled
CardHandleConnect(s) ==
  /\ scene = "toolbar"
  /\ ShowsDialog(s) /\ ~card[s].isConnecting
  /\ card[s].isDialogOpen \/ s \in enabledTools
  /\ HasAuthConfig(TOOLKIT_AUTH_CONFIG, s)
  /\ CanInitiate
  /\ card' = [card EXCEPT ![s].isConnecting = TRUE,
                          ![s].isDialogOpen = TRUE,
                          ![s].connectionStatus = "connecting",
                          ![s].cancelled = FALSE]
  /\ initReq' = [initReq EXCEPT ![<<"card", s, TRUE>>] = @ + 1]
  /\ UNCHANGED <<beside, scene, conn, nextConn, tb, enabledTools, panel, inl, events>>

\* handleConnect for a slug without an auth configuration: the
\* 'Configuration error' toast, and return before any state is set or any
\* request is made (the dialog is open when its button is pressed)
CardConfigError(s) ==
  /\ scene = "toolbar"
  /\ ShowsDialog(s) /\ ~card[s].isConnecting
  /\ card[s].isDialogOpen \/ s \in enabledTools
  /\ ~HasAuthConfig(TOOLKIT_AUTH_CONFIG, s)
  /\ configErrors' = configErrors \cup {<<"card", s>>}
  /\ card' = [card EXCEPT ![s].isDialogOpen = TRUE]
  /\ UNCHANGED <<rest, scene, conn, nextConn, initReq, tb, enabledTools, panel,
                 inl, events, env, chat, llm, message, availableTools,
                 parsed, reg>>

\* a connection attempt as handleConnect / handleConnectTool leaves it: the
\* timer of the first status check is armed
NewConn(comp, s, lv) ==
  [NoConn EXCEPT !.comp = comp, !.slug = s, !.live = lv,
                 !.firstTimer = 1]

\* handleConnect after the await: redirectUrl and connectionId received
CardInitiateOk(s, lv) ==
  /\ initReq[<<"card", s, lv>>] > 0
  /\ nextConn <= MaxConn
  /\ initReq' = [initReq EXCEPT ![<<"card", s, lv>>] = @ - 1]
  /\ conn' = [conn EXCEPT ![nextConn] = NewConn("card", s, lv)]
  /\ nextConn' = nextConn + 1
  /\ card' = IF lv
             THEN [card EXCEPT ![s].activeConnectionId = nextConn,
                               ![s].isDialogOpen = FALSE,
                               ![s].isConnecting = FALSE]
             ELSE card
  /\ UNCHANGED <<beside, scene, tb, enabledTools, panel, inl,
                 events>>

\* handleConnect after the await: no redirectUrl, response not ok, or the
\* fetch threw
CardInitiateFail(s, lv) ==
  /\ initReq[<<"card", s, lv>>] > 0
  /\ initReq' = [initReq EXCEPT ![<<"card", s, lv>>] = @ - 1]
  /\ card' = IF lv
             THEN [card EXCEPT ![s].connectionStatus = "failed",
                               ![s].isConnecting = FALSE]
             ELSE card
  /\ UNCHANGED <<beside, scene, conn, nextConn, tb, enabledTools, panel, inl, events>>

\* the Cancel button of the card
CardCancel(s) ==
  /\ scene = "toolbar"
  /\ card[s].mounted /\ Busy(s)
  /\ conn' = ClearTimeout(conn, card[s].pollingTimeoutRef)
  /\ card' = [card EXCEPT ![s].connectionStatus = "idle",
                          ![s].activeConnectionId = 0,
                          ![s].cancelled = TRUE]
  /\ UNCHANGED <<beside, scene, nextConn, initReq, tb, enabledTools, panel, inl, events>>

\* checkConnectionStatus(connectionId) up to its await
CheckConnectionStatus(c) ==
  /\ conn[c].comp = "card"
  /\ conn[c].polls < MaxPolls
  /\ card' = IF conn[c].live
             THEN [card EXCEPT ![conn[c].slug].connectionStatus = "checking"]
             ELSE card
  /\ UNCHANGED <<beside, scene, nextConn, initReq, tb, enabledTools, panel, inl, events>>

\* setTimeout(() => checkConnectionStatus(connectionId), 3000) fires
CardFirstTimerFires(c) ==
  /\ conn[c].firstTimer > 0
  /\ CheckConnectionStatus(c)
  /\ conn' = [conn EXCEPT ![c].firstTimer = @ - 1, ![c].req = @ + 1,
                          ![c].polls = @ + 1, ![c].outcome = "checking"]

\* variant of CardPollTimerFires: the timer is an interval and stays armed
CardPollIntervalFires(c) ==
  /\ conn[c].pollTimer > 0
  /\ CheckConnectionStatus(c)
  /\ conn' = [conn EXCEPT ![c].req = @ + 1, ![c].polls = @ + 1,
                          ![c].outcome = "checking"]

\* the 2000 ms timer kept in pollingTimeoutRef fires
CardPollTimerFires(c) ==
  /\ conn[c].pollTimer > 0
  /\ CheckConnectionStatus(c)
  /\ conn' = [conn EXCEPT ![c].pollTimer = @ - 1, ![c].req = @ + 1,
                          ![c].polls = @ + 1, ![c].outcome = "checking"]

\* variant of CardBranch: ACTIVE is taken for a status still in progress
CardBranchActivePolls(r) ==
  CASE r \in {NETERR, HTTPERR} -> "catch"
    [] r = "FAILED" -> "failed"
    [] r = "EXPIRED" -> "expired"
    [] OTHER -> "poll"

\* the branch checkConnectionStatus takes after the await: the throw on a
\* response that is not ok and a thrown fetch reach the catch, a status
\* selects its case of the switch
CardBranch(r) ==
  CASE r \in {NETERR, HTTPERR} -> "catch"
    [] r = "ACTIVE" -> "active"
    [] r = "FAILED" -> "failed"
    [] r = "EXPIRED" -> "expired"
    [] r \in NonTerminal -> "poll"

\* checkConnectionStatus after the await
CardStatusResponse(c, r) ==
  /\ conn[c].comp = "card" /\ conn[c].req > 0
  /\ r \in Responses
  /\ LET s == conn[c].slug
         lv == conn[c].live
         b == CardBranch(r)
         got == [conn EXCEPT ![c].req = @ - 1,
                             ![c].polled = Append(@, r)]
     IN CASE b = "active" ->
               \* setConnectionStatus('active'); onConnectionDeleted?.()
               \* is fetchToolkits, which sets isLoading
               LET cn == [got EXCEPT ![c].outcome = "active",
                                     ![c].notified = @ + 1]
                   cd == IF lv
                         THEN [card EXCEPT ![s].connectionStatus = "active"]
                         ELSE card
                   t == StartFetchToolkits(tb)
               IN /\ tb' = t
                  /\ card' = RenderCards(cd, tb, t)
                  /\ conn' = UnmountConn(cn, cd, Unmounted(cd, t))
                  /\ initReq' = UnmountInitReq(initReq, Unmounted(cd, t))
          [] b \in {"failed", "expired"} ->
               /\ conn' = [got EXCEPT ![c].outcome = b]
               /\ card' = IF lv
                          THEN [card EXCEPT ![s].connectionStatus = b]
                          ELSE card
               /\ UNCHANGED <<tb, initReq>>
          [] b = "poll" ->
               \* pollingTimeoutRef.current = setTimeout(..., 2000)
               /\ conn' = [got EXCEPT ![c].pollTimer = @ + 1]
               /\ card' = IF lv
                          THEN [card EXCEPT ![s].pollingTimeoutRef =
                                  [cid |-> c, k |-> conn[c].polls]]
                          ELSE card
               /\ UNCHANGED <<tb, initReq>>
          [] b = "catch" ->
               \* catch: setConnectionStatus('failed')
               /\ conn' = [got EXCEPT ![c].outcome = "failed"]
               /\ card' = IF lv
                          THEN [card EXCEPT ![s].connectionStatus = "failed"]
                          ELSE card
               /\ UNCHANGED <<tb, initReq>>
  /\ UNCHANGED <<beside, scene, nextConn, enabledTools, panel,
                 inl, events>>

\* ------------------------------------- window 'toolConnected' event bus
\* window.dispatchEvent(new CustomEvent('toolConnected', {detail})) runs the
\* subscribed handlers: the panel's arms its 2000 ms timer, the inline
\* variant's starts its registry fetch
Dispatch(ev, s, c) == Append(ev, [toolSlug |-> s, cid |-> c])
PanelOnEvent(p) ==
  IF scene = "panel" THEN [p EXCEPT !.refreshTimers = @ + 1] ELSE p
InlineOnEvent(i) ==
  IF scene = "inline" THEN [i EXCEPT !.fetches = @ + 1] ELSE i
\* fetch('/api/toolkits') of kind k up to its await
IssueFetch(ch, k) ==
  [ch EXCEPT !.issued = @ + 1,
             !.inflight = @ \cup {[kind |-> k, seq |-> ch.issued + 1,
                                   served |-> FALSE, data |-> {}]}]

\* the fetch in flight that was the n-th issued
FetchOf(ch, n) == CHOOSE f \in ch.inflight : f.seq = n

\* a handler that runs whether or not its component is mounted
ChatOnEventAlways(ch) == IssueFetch(ch, "refresh")

\* Chat's handler: refreshToolkits
ChatOnEvent(ch) ==
  IF ch.mounted THEN IssueFetch(ch, "refresh") ELSE ch

\* ---------------------------------- ToolActivation, polling variant
\* isConnected as the panel derives it: the fetched status, else the prop
\* (the required tools were reported disconnected)
PanelNotConnected(s) ==
  IF panel.currentToolStatus[s] # "undef"
  THEN panel.currentToolStatus[s] = "false"
  ELSE TRUE

\* handleConnectTool up to its await
PanelHandleConnectTool(s) ==
  /\ scene = "panel"
  /\ s \in RequiredTools /\ PanelNotConnected(s)
  /\ s \notin panel.connectingTools
  /\ panel.connectionStatus[s] # "success"
  /\ HasAuthConfig(PANEL_TOOLKIT_AUTH_CONFIG, s)
  /\ CanInitiate
  /\ panel' = [panel EXCEPT !.connectingTools = @ \cup {s},
                            !.connectionStatus[s] = "connecting"]
  /\ initReq' = [initReq EXCEPT ![<<"panel", s, TRUE>>] = @ + 1]
  /\ UNCHANGED <<beside, scene, conn, nextConn, card, tb, enabledTools, inl, events>>

\* handleConnectTool for a slug without an auth configuration: the
\* 'Configuration error' toast, and return
PanelConfigError(s) ==
  /\ scene = "panel"
  /\ s \in RequiredTools /\ PanelNotConnected(s)
  /\ s \notin panel.connectingTools
  /\ panel.connectionStatus[s] # "success"
  /\ ~HasAuthConfig(PANEL_TOOLKIT_AUTH_CONFIG, s)
  /\ configErrors' = configErrors \cup {<<"panel", s>>}
  /\ UNCHANGED <<rest, flow, env, chat, llm, message, availableTools, parsed, reg>>

\* handleConnectTool after the await: redirectUrl and connectionId received;
\* arms the 5000 ms first poll and the 30000 ms reset
PanelInitiateOk(s) ==
  /\ initReq[<<"panel", s, TRUE>>] > 0
  /\ nextConn <= MaxConn
  /\ initReq' = [initReq EXCEPT ![<<"panel", s, TRUE>>] = @ - 1]
  /\ conn' = [conn EXCEPT ![nextConn] =
                [NewConn("panel", s, TRUE) EXCEPT !.resetTimer = 1,
                                                  !.outcome = "success"]]
  /\ nextConn' = nextConn + 1
  /\ panel' = [panel EXCEPT !.connectionStatus[s] = "success",
                            !.connectingTools = @ \ {s}]
  /\ UNCHANGED <<beside, scene, card, tb, enabledTools, inl,
                 events>>

PanelInitiateFail(s) ==
  /\ initReq[<<"panel", s, TRUE>>] > 0
  /\ initReq' = [initReq EXCEPT ![<<"panel", s, TRUE>>] = @ - 1]
  /\ panel' = [panel EXCEPT !.connectionStatus[s] = "error",
                            !.connectingTools = @ \ {s}]
  /\ UNCHANGED <<beside, scene, conn, nextConn, card, tb, enabledTools, inl, events>>

\* pollConnectionStatus up to its await
PollConnectionStatus(c) ==
  /\ conn[c].comp = "panel"
  /\ conn[c].polls < MaxPolls
  /\ UNCHANGED <<beside, scene, nextConn, initReq, card, tb, enabledTools, panel, inl, events>>

\* setTimeout(pollConnectionStatus, 5000) after initiation fires
PanelFirstTimerFires(c) ==
  /\ conn[c].firstTimer > 0
  /\ PollConnectionStatus(c)
  /\ conn' = [conn EXCEPT ![c].firstTimer = @ - 1, ![c].req = @ + 1,
                          ![c].polls = @ + 1]

\* setTimeout(pollConnectionStatus, 3000 | 5000) fires
PanelPollTimerFires(c) ==
  /\ conn[c].pollTimer > 0
  /\ PollConnectionStatus(c)
  /\ conn' = [conn EXCEPT ![c].pollTimer = @ - 1, ![c].req = @ + 1,
                          ![c].polls = @ + 1]

\* variant of PanelBranch: only ACTIVE ends the polling
PanelBranchFailedPolls(r) ==
  CASE r = NETERR -> "catch"
    [] r = HTTPERR -> "skip"
    [] r = "ACTIVE" -> "success"
    [] OTHER -> "poll"

\* the branch pollConnectionStatus takes after the await: a thrown fetch
\* reaches the catch, a response that is not ok skips the if, a status
\* selects its arm of the if / else if / else
PanelBranch(r) ==
  CASE r = NETERR -> "catch"
    [] r = HTTPERR -> "skip"
    [] r = "ACTIVE" -> "success"
    [] r \in {"FAILED", "EXPIRED"} -> "error"
    [] OTHER -> "poll"

\* pollConnectionStatus after the await
PanelStatusResponse(c, r) ==
  /\ conn[c].comp = "panel" /\ conn[c].req > 0
  /\ r \in Responses
  /\ LET s == conn[c].slug
         b == PanelBranch(r)
         got == [conn EXCEPT ![c].req = @ - 1,
                             ![c].polled = Append(@, r)]
     IN CASE b = "success" ->
               /\ conn' = [got EXCEPT ![c].outcome = "success",
                                      ![c].notified = @ + 1]
               /\ panel' = PanelOnEvent(
                             [panel EXCEPT
                                !.connectionStatus[s] = "success",
                                !.currentToolStatus[s] = "true"])
               /\ events' = Dispatch(events, s, c)
               /\ inl' = InlineOnEvent(inl)
               /\ chat' = ChatOnEvent(chat)
          [] b = "error" ->
               /\ conn' = [got EXCEPT ![c].outcome = "error"]
               /\ panel' = [panel EXCEPT !.connectionStatus[s] = "error"]
               /\ UNCHANGED <<events, inl, chat>>
          [] b = "poll" ->
               \* still in progress: setTimeout(pollConnectionStatus, 3000)
               /\ conn' = [got EXCEPT ![c].pollTimer = @ + 1]
               /\ UNCHANGED <<panel, events, inl, chat>>
          [] b = "catch" ->
               \* catch: setTimeout(pollConnectionStatus, 5000)
               /\ conn' = [got EXCEPT ![c].pollTimer = @ + 1]
               /\ UNCHANGED <<panel, events, inl, chat>>
          [] b = "skip" ->
               \* statusResponse.ok is false: nothing happens
               /\ conn' = got
               /\ UNCHANGED <<panel, events, inl, chat>>
  /\ UNCHANGED <<offChat, scene, nextConn, initReq, card, tb, enabledTools>>

\* the 30000 ms timer armed at initiation fires (after the 5000 ms one
\* armed with it): a status still 'success' becomes 'idle'
PanelResetTimerFires(c) ==
  /\ conn[c].comp = "panel"
  /\ conn[c].resetTimer > 0 /\ conn[c].firstTimer = 0
  /\ conn' = [conn EXCEPT ![c].resetTimer = @ - 1, ![c].timedOut = TRUE]
  /\ panel' = IF panel.connectionStatus[conn[c].slug] = "success"
              THEN [panel EXCEPT !.connectionStatus[conn[c].slug] = "idle"]
              ELSE panel
  /\ UNCHANGED <<beside, scene, nextConn, initReq, card, tb, enabledTools, inl, events>>

\* handleToolConnected's 2000 ms timer fires: fetch('/api/toolkits')
PanelRefreshTimerFires ==
  /\ panel.refreshTimers > 0
  /\ panel' = [panel EXCEPT !.refreshTimers = @ - 1, !.fetches = @ + 1]
  /\ UNCHANGED <<beside, scene, conn, nextConn, initReq, card, tb, enabledTools, inl, events>>

\* fetchCurrentToolStatus after the await
PanelToolkitsResponse(ok) ==
  /\ panel.fetches > 0
  /\ panel' = [panel EXCEPT
                 !.fetches = @ - 1,
                 !.currentToolStatus =
                    IF ok
                    THEN [s \in Slugs |->
                            IF RegistryIsConnected(s) THEN "true" ELSE "false"]
                    ELSE @]
  /\ UNCHANGED <<beside, scene, conn, nextConn, initReq, card, tb, enabledTools, inl, events>>

\* ------------------------------ ToolActivation, variant without polling
InlineNotConnected(s) ==
  IF inl.currentToolStatus[s] # "undef"
  THEN inl.currentToolStatus[s] = "false"
  ELSE TRUE

\* handleConnectTool up to its await
InlineHandleConnectTool(s) ==
  /\ scene = "inline"
  /\ s \in RequiredTools /\ InlineNotConnected(s)
  /\ s \notin inl.connectingTools
  /\ inl.connectionStatus[s] # "success"
  /\ HasAuthConfig(PANEL_TOOLKIT_AUTH_CONFIG, s)
  /\ CanInitiate
  /\ inl' = [inl EXCEPT !.connectingTools = @ \cup {s},
                        !.connectionStatus[s] = "connecting"]
  /\ initReq' = [initReq EXCEPT ![<<"inline", s, TRUE>>] = @ + 1]
  /\ UNCHANGED <<beside, scene, conn, nextConn, card, tb, enabledTools, panel, events>>

\* handleConnectTool for a slug without an auth configuration: the
\* 'Configuration error' toast, and return
InlineConfigError(s) ==
  /\ scene = "inline"
  /\ s \in RequiredTools /\ InlineNotConnected(s)
  /\ s \notin inl.connectingTools
  /\ inl.connectionStatus[s] # "success"
  /\ ~HasAuthConfig(PANEL_TOOLKIT_AUTH_CONFIG, s)
  /\ configErrors' = configErrors \cup {<<"inline", s>>}
  /\ UNCHANGED <<rest, flow, env, chat, llm, message, availableTools, parsed, reg>>

\* handleConnectTool after the await: onToolConnected and the
\* 'toolConnected' event right after window.open, then the 3000 ms reset
InlineInitiateOk(s) ==
  /\ initReq[<<"inline", s, TRUE>>] > 0
  /\ nextConn <= MaxConn
  /\ initReq' = [initReq EXCEPT ![<<"inline", s, TRUE>>] = @ - 1]
  /\ conn' = [conn EXCEPT ![nextConn] =
                [NewConn("inline", s, TRUE) EXCEPT !.firstTimer = 0,
                                                   !.outcome = "success",
                                                   !.notified = 1]]
  /\ nextConn' = nextConn + 1
  /\ events' = Dispatch(events, s, nextConn)
  /\ panel' = PanelOnEvent(panel)
  /\ chat' = ChatOnEvent(chat)
  /\ inl' = InlineOnEvent(
              [inl EXCEPT !.connectionStatus[s] = "success",
                          !.connectingTools = @ \ {s},
                          !.resetTimers[s] = @ + 1])
  /\ UNCHANGED <<offChat, scene, card, tb, enabledTools>>

InlineInitiateFail(s) ==
  /\ initReq[<<"inline", s, TRUE>>] > 0
  /\ initReq' = [initReq EXCEPT ![<<"inline", s, TRUE>>] = @ - 1]
  /\ inl' = [inl EXCEPT !.connectionStatus[s] = "error",
                        !.connectingTools = @ \ {s}]
  /\ UNCHANGED <<beside, scene, conn, nextConn, card, tb, enabledTools, panel, events>>

\* setTimeout(() => set(tool.slug, 'idle'), 3000) fires
InlineResetTimerFires(s) ==
  /\ inl.resetTimers[s] > 0
  /\ inl' = [inl EXCEPT !.resetTimers[s] = @ - 1,
                        !.connectionStatus[s] = "idle"]
  /\ UNCHANGED <<beside, scene, conn, nextConn, initReq, card, tb, enabledTools, panel, events>>

\* fetchCurrentToolStatus after the await
InlineToolkitsResponse(ok) ==
  /\ inl.fetches > 0
  /\ inl' = [inl EXCEPT
               !.fetches = @ - 1,
               !.currentToolStatus =
                  IF ok
                  THEN [s \in Slugs |->
                          IF RegistryIsConnected(s) THEN "true" ELSE "false"]
                  ELSE @]
  /\ UNCHANGED <<beside, scene, conn, nextConn, initReq, card, tb, enabledTools, panel, events>>

\* ------------------------------------------------------------------ Chat
\* Chat after its mount effects: the useLayoutEffect fetch, the fallback
\* useEffect fetch (toolkitsLoaded is still false) and the 2000 ms timer
MountedChat ==
  [IssueFetch(IssueFetch(NoChat, "mount"), "fallback")
     EXCEPT !.mounted = TRUE, !.manualTimer = 1]

\* what a fetch('/api/toolkits') of the chat can end with
FetchResults == {"ok", "notok", "throw"}

\* the 2000 ms timer fires: manualFetch unless the toolkits are loaded
ChatManualTimerFires ==
  /\ chat.manualTimer > 0
  /\ chat' = [(IF chat.toolkitsLoaded THEN chat
                ELSE IssueFetch(chat, "manual")) EXCEPT !.manualTimer = 0]
  /\ UNCHANGED <<flow, offChat>>

\* whether a fetch of kind k that ended with r sets toolkitsLoaded: every
\* fetch that got an ok response but the refresh; the mount fetch always;
\* the fallback fetch also when it threw
SetsLoaded(k, r) ==
  \/ r = "ok" /\ k # "refresh"
  \/ k = "mount"
  \/ k = "fallback" /\ r = "throw"

\* the registry route serves fetch f of the chat: its response, still on
\* its way, holds the toolkits connected now
ChatToolkitsServed(n) ==
  /\ \E f \in chat.inflight : f.seq = n /\ ~f.served
  /\ LET f == FetchOf(chat, n)
     IN chat' = [chat EXCEPT
                   !.inflight = (@ \ {f}) \cup
                      {[f EXCEPT !.served = TRUE,
                                 !.data = ConnectedToolkitSlugs]}]
  /\ UNCHANGED <<flow, offChat>>

\* a registry fetch of the chat returns (ok for a fetch the route served,
\* else not ok or thrown): the connected toolkits of an ok response become
\* enabledToolkits; a change of toolkitsLoaded re-arms the 2000 ms timer
ChatToolkitsResponse(n, r) ==
  /\ \E f \in chat.inflight : f.seq = n /\ (r = "ok") = f.served
  /\ LET f == FetchOf(chat, n)
         loaded == chat.toolkitsLoaded \/ SetsLoaded(f.kind, r)
         idle == chat.inflight = {f}
     IN chat' = [chat EXCEPT
                   !.inflight = @ \ {f},
                   !.enabledToolkits = IF r = "ok" THEN f.data ELSE @,
                   !.issued = IF idle THEN 0 ELSE @,
                   !.applied = IF idle THEN 0
                               ELSE IF r = "ok" THEN f.seq ELSE @,
                   !.toolkitsLoaded = loaded,
                   !.manualTimer = IF loaded # chat.toolkitsLoaded
                                   THEN 1 ELSE @]
  /\ UNCHANGED <<flow, offChat>>

\* Chat mounts: its state is initial, its effects run and its listener is
\* added to window
ChatMount ==
  /\ ~chat.mounted
  /\ chat' = MountedChat
  /\ UNCHANGED <<flow, offChat>>

\* Chat unmounts: the cleanups remove the listener and clear the timer;
\* what its fetches return is set on nothing
ChatUnmount ==
  /\ chat.mounted
  /\ chat' = NoChat
  /\ UNCHANGED <<flow, offChat>>

\* experimental_prepareRequestBody: the request carries enabledToolkits.
\* enabledAtSend and connectedAtSend are history: the toolbar's enabled set
\* and the toolkits the registry holds connected when the request is sent
ChatSend ==
  /\ chat.mounted /\ Len(llm) < MaxRequests
  /\ llm' = Append(llm, [enabledToolkits |-> chat.enabledToolkits,
                         enabledAtSend |-> enabledTools,
                         connectedAtSend |-> ConnectedToolkitSlugs,
                         answered |-> FALSE, tools |-> {}])
  /\ UNCHANGED <<rest, flow, env, configErrors, chat, message, availableTools,
                 parsed, reg>>

\* POST /api/chat, stream execute: the route fetches the registry itself
\* and hands the model the tools of the connected toolkits (none if that
\* fetch fails); enabledToolkits of the request body is not read
ChatRouteExecute(i, ok) ==
  /\ i \in 1..Len(llm) /\ ~llm[i].answered
  /\ llm' = [llm EXCEPT ![i].answered = TRUE,
                        ![i].tools = IF ok THEN ConnectedToolkitSlugs ELSE {}]
  /\ UNCHANGED <<rest, flow, env, configErrors, chat, message, availableTools,
                 parsed, reg>>

\* the chat beside the toolbar
InitChat ==
  /\ InitFlow /\ scene = "toolbar"
  /\ env = Slugs
  /\ configErrors = {}
  /\ InitRest
  /\ chat = MountedChat
  /\ llm = <<>>
  /\ message = <<>>
  /\ availableTools = {}
  /\ parsed = NoParsed
  /\ reg = NoReg

\* ------------------------------------------------- GET /api/toolkits
\* the route's list of toolkits (two of the eight slugs)
SUPPORTED_TOOLKITS == Slugs

\* slugs the platform's connected accounts carry: lower case as the
\* platform stores it, upper case, a toolkit the route does not list, and
\* "" for an account without a toolkit slug
AccountSlugs == {"gmail", "GITHUB", "SLACK", ""}

\* String.prototype.toUpperCase on the slugs above
ToUpperCase(s) == IF s = "gmail" THEN "GMAIL" ELSE s

\* connectedAccounts.items, in order; the id of the i-th account is i.
\* Every status is listed: the route passes no status filter
AccountLists ==
  UNION {[1..n -> [slug : AccountSlugs, status : ConnectionStatus]] :
           n \in 0..MaxAccounts}

\* connectedToolkitMap: upper-cased slug -> connection id, a later account
\* replacing an earlier one of the same slug; empty when the lookup threw
ConnectedToolkitMap(lookupOk, accounts) ==
  LET used == {i \in 1..Len(accounts) : accounts[i].slug # ""}
      keys == IF lookupOk THEN {ToUpperCase(accounts[i].slug) : i \in used}
              ELSE {}
  IN [k \in keys |->
        CHOOSE i \in used :
          /\ ToUpperCase(accounts[i].slug) = k
          /\ \A j \in used : ToUpperCase(accounts[j].slug) = k => j <= i]

\* the route without the try/catch around the accounts lookup: a lookup
\* that throws reaches the outer catch
RegistryResponseLookupThrows(lookupOk, accounts, getOk) ==
  IF ~lookupOk THEN [status |-> 500, toolkits |-> <<>>]
  ELSE LET m == ConnectedToolkitMap(lookupOk, accounts)
       IN [status |-> 200,
           toolkits |-> [s \in getOk |->
                           [isConnected |-> s \in DOMAIN m,
                            connectionId |-> IF s \in DOMAIN m THEN m[s]
                                             ELSE 0]]]

\* a toolkit reported connected whatever its connection id
ConnectedWhateverId(connectionId) == TRUE

\* const isConnected = !!connectionId (0 stands for undefined)
IsConnectedOf(connectionId) == connectionId # 0

\* the response: the toolkits whose toolkits.get succeeded, each with
\* isConnected = !!connectionId and connectionId (0 for undefined)
RegistryResponse(lookupOk, accounts, getOk) ==
  LET m == ConnectedToolkitMap(lookupOk, accounts)
      connectionId(s) == IF s \in DOMAIN m THEN m[s] ELSE 0
  IN [status |-> 200,
      toolkits |-> [s \in getOk |->
                      [isConnected |-> IsConnectedOf(connectionId(s)),
                       connectionId |-> connectionId(s)]]]

\* GET: the route answers for what the platform holds
RegistryGet ==
  /\ ~reg.asked
  /\ LET r == RegistryResponse(reg.lookupOk, reg.accounts, reg.getOk)
     IN reg' = [reg EXCEPT !.asked = TRUE, !.status = r.status,
                           !.toolkits = r.toolkits]
  /\ UNCHANGED <<rest, flow, env, configErrors, chat, llm, message,
                 availableTools, parsed>>

\* the route before a request: whether the accounts lookup succeeds, the
\* accounts the platform holds, the toolkits whose toolkits.get succeeds
InitRegistry ==
  /\ InitFlow /\ scene = "toolbar"
  /\ env = Slugs
  /\ configErrors = {}
  /\ InitRest
  /\ chat = NoChat
  /\ llm = <<>>
  /\ message = <<>>
  /\ availableTools = {}
  /\ parsed = NoParsed
  /\ \E ok \in BOOLEAN, accs \in AccountLists, g \in SUBSET SUPPORTED_TOOLKITS :
       reg = [asked |-> FALSE, lookupOk |-> ok, accounts |-> accs,
              getOk |-> g, status |-> 0, toolkits |-> <<>>]

\* ------------------------------------------- parseToolActivationMessage
\* A message is a sequence of tokens, its text their concatenation.  The
\* opening literal '[TOOL_ACTIVATION_REQUIRED:' is the two tokens LB RQ, so
\* that text removed from between them brings them together.  No token is a
\* prefix of another: two token sequences are the same text iff they are
\* equal, and the regular expression matches on token boundaries only
LB == "[TOOL_ACTIVATION_"
RQ == "REQUIRED:"
RB == "]"
COMMA == ","
SP == " "
TXT == "text"
SlugTokens == {"GMAIL", "gmail", "GITHUB"}
Tokens == {LB, RQ, RB, COMMA, SP} \cup SlugTokens

\* the lists of known tools given to the parser (their slugs, in order)
ToolLists == {<<>>, <<"GMAIL">>, <<"GMAIL", "GITHUB">>, <<"GITHUB", "GMAIL">>}

\* pieces of text the longer messages are made of
Marker(content) == <<LB, RQ>> \o content \o <<RB>>
Segments ==
  {<<TXT>>, <<SP>>, <<LB>>, <<RQ, "GMAIL", RB>>,
   Marker(<<"GMAIL">>), Marker(<<"gmail">>),
   Marker(<<"GITHUB", COMMA, SP, "GMAIL">>),
   Marker(<<SP, "GMAIL", SP>>), Marker(<<SP>>), Marker(<<"GMAIL", "GITHUB">>)}

RECURSIVE Concat(_)
Concat(ss) == IF ss = <<>> THEN <<>> ELSE Head(ss) \o Concat(Tail(ss))

\* the messages given to the parser: every token sequence up to MaxTokens
\* and every concatenation of up to MaxSegments segments
Messages ==
  UNION {[1..n -> Tokens] : n \in 0..MaxTokens}
  \cup {Concat(ss) : ss \in UNION {[1..n -> Segments] : n \in 0..MaxSegments}}

Range(f) == {f[i] : i \in DOMAIN f}

\* /\[TOOL_ACTIVATION_REQUIRED:([^\]]+)\]/ tried at position i: the index
\* of the closing bracket of the match, 0 when there is none.  The group
\* runs to the first ']' after the literal and has at least one character
ToolActivationRegexAt(msg, i) ==
  IF i + 1 <= Len(msg) /\ msg[i] = LB /\ msg[i + 1] = RQ
  THEN LET close == {j \in (i + 2)..Len(msg) : msg[j] = RB}
       IN IF close = {} THEN 0
          ELSE LET j == CHOOSE x \in close : \A y \in close : x <= y
               IN IF j > i + 2 THEN j ELSE 0
  ELSE 0

\* message.matchAll(regex) from position i on: the matches <<start, end>>,
\* leftmost first, the search resuming after each match
RECURSIVE MatchAll(_, _)
MatchAll(msg, i) ==
  IF i > Len(msg) THEN <<>>
  ELSE LET j == ToolActivationRegexAt(msg, i)
       IN IF j > 0 THEN <<<<i, j>>>> \o MatchAll(msg, j + 1)
          ELSE MatchAll(msg, i + 1)

\* match[1]: the text of the group
Group(msg, m) == SubSeq(msg, m[1] + 2, m[2] - 1)

\* String.prototype.split(','): the pieces between the commas
RECURSIVE Split(_)
Split(s) ==
  IF \A i \in 1..Len(s) : s[i] # COMMA THEN <<s>>
  ELSE LET k == CHOOSE i \in 1..Len(s) :
                  s[i] = COMMA /\ \A j \in 1..(i - 1) : s[j] # COMMA
       IN <<SubSeq(s, 1, k - 1)>> \o Split(SubSeq(s, k + 1, Len(s)))

\* String.prototype.trim()
RECURSIVE Trim(_)
Trim(s) ==
  IF s = <<>> THEN s
  ELSE IF Head(s) = SP THEN Trim(Tail(s))
  ELSE IF s[Len(s)] = SP THEN Trim(SubSeq(s, 1, Len(s) - 1))
  ELSE s

\* an array that keeps every slug added to it
AddAll(seq, x) == Append(seq, x)

\* Set.prototype.add, the set kept in insertion order
SetAdd(seq, x) == IF x \in Range(seq) THEN seq ELSE Append(seq, x)

\* slugs.forEach(slug => requiredSlugs.add(slug))
RECURSIVE AddSlugs(_, _)
AddSlugs(set, pieces) ==
  IF pieces = <<>> THEN set
  ELSE AddSlugs(SetAdd(set, Trim(Head(pieces))), Tail(pieces))

\* matches.forEach(...): requiredSlugs after the matches ms
RECURSIVE RequiredSlugs(_, _, _)
RequiredSlugs(msg, ms, set) ==
  IF ms = <<>> THEN set
  ELSE RequiredSlugs(msg, Tail(ms), AddSlugs(set, Split(Group(msg, Head(ms)))))

\* availableTools.find(tool => tool.slug === slug): the index of the first
\* tool with that slug, 0 for undefined
Find(tools, slug) ==
  LET hits == {i \in 1..Len(tools) : slug = <<tools[i]>>}
  IN IF hits = {} THEN 0 ELSE CHOOSE i \in hits : \A j \in hits : i <= j

\* Array.from(requiredSlugs).map(find).filter(defined)
RECURSIVE RequiredToolsOf(_, _)
RequiredToolsOf(slugs, tools) ==
  IF slugs = <<>> THEN <<>>
  ELSE LET i == Find(tools, Head(slugs))
       IN (IF i = 0 THEN <<>> ELSE <<tools[i]>>)
          \o RequiredToolsOf(Tail(slugs), tools)

\* message.replace(regex, ''): one pass, every match taken out
RECURSIVE Replace(_, _)
Replace(msg, i) ==
  IF i > Len(msg) THEN <<>>
  ELSE LET j == ToolActivationRegexAt(msg, i)
       IN IF j > 0 THEN Replace(msg, j + 1)
          ELSE <<msg[i]>> \o Replace(msg, i + 1)

Null == [isNull |-> TRUE, requiredTools |-> <<>>, message |-> <<>>]

\* the parser without its check of requiredTools.length
ParseWithoutEmptyCheck(msg, tools) ==
  LET matches == MatchAll(msg, 1)
  IN IF matches = <<>> THEN Null
     ELSE [isNull |-> FALSE,
           requiredTools |->
             RequiredToolsOf(RequiredSlugs(msg, matches, <<>>), tools),
           message |-> Trim(Replace(msg, 1))]

ParseToolActivationMessage(msg, tools) ==
  LET matches == MatchAll(msg, 1)
      requiredTools ==
        RequiredToolsOf(RequiredSlugs(msg, matches, <<>>), tools)
  IN IF matches = <<>> THEN Null
     ELSE IF requiredTools = <<>> THEN Null
     ELSE [isNull |-> FALSE, requiredTools |-> requiredTools,
           message |-> Trim(Replace(msg, 1))]

\* /\[TOOL_ACTIVATION_REQUIRED:[^\]]+\]/.test(message)
HasToolActivationRequirements(msg) ==
  \E i \in 1..Len(msg) : ToolActivationRegexAt(msg, i) > 0

\* the parser before any call: the message and the known tools
InitParser ==
  /\ InitFlow /\ scene = "toolbar"
  /\ env = Slugs
  /\ configErrors = {}
  /\ InitRest
  /\ chat = NoChat
  /\ llm = <<>>
  /\ reg = NoReg
  /\ message \in Messages
  /\ availableTools \in ToolLists
  /\ parsed = NoParsed

\* parseToolActivationMessage(message, availableTools)
Parse ==
  /\ ~parsed.called
  /\ parsed' = [parsed EXCEPT
                  !.called = TRUE,
                  !.result = ParseToolActivationMessage(message, availableTools)]
  /\ UNCHANGED <<rest, flow, env, configErrors, chat, llm, message, availableTools,
                 reg>>

\* parseToolActivationMessage(result.message, availableTools): the cleaned
\* text parsed again; markers is the number of matches found in it
Reparse ==
  /\ parsed.called /\ ~parsed.result.isNull /\ ~parsed.reparsed
  /\ parsed' = [parsed EXCEPT
                  !.reparsed = TRUE,
                  !.markers = Len(MatchAll(parsed.result.message, 1)),
                  !.again = ParseToolActivationMessage(parsed.result.message,
                                                       availableTools)]
  /\ UNCHANGED <<rest, flow, env, configErrors, chat, llm, message, availableTools,
                 reg>>

\* hasToolActivationRequirements(message)
HasRequirements ==
  /\ ~parsed.tested
  /\ parsed' = [parsed EXCEPT
                  !.tested = TRUE,
                  !.has = HasToolActivationRequirements(message)]
  /\ UNCHANGED <<rest, flow, env, configErrors, chat, llm, message, availableTools,
                 reg>>

\* ------------------------------------------------------- POST /api/chat
\* Array.prototype.slice(-k) of an array of length len, as a length: -0 is
\* 0, and slice(0) is the whole array
SliceLast(len, k) == IF k = 0 THEN len ELSE IF k < len THEN k ELSE len

\* finalMessages.length for previousMessages.length = len:
\* slice(-config.chat.maxMessages), then the safety slice to
\* Math.min(config.chat.maxMessages, 1) when still longer than that
FinalMessages(len, maxMessages) ==
  LET limited == SliceLast(len, maxMessages)
      maxSafeMessages == IF maxMessages < 1 THEN maxMessages ELSE 1
  IN IF limited > maxSafeMessages THEN SliceLast(limited, maxSafeMessages)
     ELSE limited

\* getMessagesByChatId({ id }).length
MessagesOfChat(d, id) == Cardinality({m \in MessageIds : d.messages[m].chat = id})

\* getMessageCountByUserId: the user messages of the caller's chats created
\* in the last 24 hours
MessageCountByUserId(d, u) ==
  Cardinality({m \in MessageIds :
                 /\ d.messages[m].chat # 0
                 /\ d.chats[d.messages[m].chat] = u
                 /\ d.messages[m].recent})

\* messageCount > entitlementsByUserType[userType].maxMessagesPerDay
OverLimit(messageCount) == messageCount > MaxMessagesPerDay

\* a handler that looks at the session only after the chat was looked up
\* and saved
PostResponseSavesFirst(d, caller, id, bodyOk) ==
  IF ~bodyOk THEN "bad_request"
  ELSE IF d.chats[id] = 0 THEN "stream"
  ELSE IF caller = 0 THEN "unauthorized"
  ELSE IF d.chats[id] # caller THEN "forbidden"
  ELSE "stream"

\* the answer of POST up to the chat lookup: the body is parsed, then the
\* session is checked, then the daily limit, then the owner of the chat
PostResponse(d, caller, id, bodyOk) ==
  IF ~bodyOk THEN "bad_request"
  ELSE IF caller = 0 THEN "unauthorized"
  ELSE IF OverLimit(MessageCountByUserId(d, caller)) THEN "rate_limit"
  ELSE IF d.chats[id] # 0 /\ d.chats[id] # caller THEN "forbidden"
  ELSE "stream"

\* POST: one request handled from its first line to its answer.  A request
\* that gets past the checks saves the chat if it is new, takes the
\* previous messages for the context, saves the user message unless its id
\* is taken (the failure of the insert is caught), and creates a stream id
Post(caller, id, mid, bodyOk) ==
  /\ post.handled < MaxPosts
  /\ LET r == PostResponse(db, caller, id, bodyOk)
         chats == [db.chats EXCEPT ![id] = IF @ = 0 THEN caller ELSE @]
         previous == MessagesOfChat(db, id)
     IN /\ post' = [post EXCEPT
                      !.handled = @ + 1, !.caller = caller, !.id = id,
                      !.bodyOk = bodyOk, !.response = r,
                      !.context = IF r = "stream"
                                  THEN FinalMessages(previous, post.maxMessages)
                                  ELSE 0,
                      !.streamed = (r = "stream")]
        /\ db' = IF r # "stream" THEN db
                 ELSE [chats |-> chats,
                       messages |->
                         [db.messages EXCEPT
                            ![mid] = IF @.chat = 0
                                     THEN [chat |-> id, recent |-> TRUE]
                                     ELSE @],
                       streams |-> [db.streams EXCEPT ![id] = @ + 1]]
  /\ UNCHANGED <<flow, env, configErrors, chat, llm, message, availableTools,
                 parsed, reg, enabledToolkitsWithStatus, aside>>

\* a day passes: the messages saved so far leave the 24 hour window
DayPasses ==
  /\ \E m \in MessageIds : db.messages[m].recent
  /\ db' = [db EXCEPT !.messages =
                        [m \in MessageIds |-> [@[m] EXCEPT !.recent = FALSE]]]
  /\ UNCHANGED <<flow, env, configErrors, chat, llm, message, availableTools,
                 parsed, reg, enabledToolkitsWithStatus, post, aside>>

\* the route with MAX_CHAT_MESSAGES set to a number from 0 on
InitPost ==
  /\ InitFlow /\ scene = "toolbar"
  /\ env = Slugs
  /\ configErrors = {}
  /\ chat = NoChat
  /\ llm = <<>>
  /\ message = <<>>
  /\ availableTools = {}
  /\ parsed = NoParsed
  /\ reg = NoReg
  /\ enabledToolkitsWithStatus = [s \in Slugs |-> "none"]
  /\ db = EmptyDb
  /\ InitAside
  /\ \E n \in 0..MaxChatMessages : post = [NoPost EXCEPT !.maxMessages = n]

NextPost ==
  \/ \E caller \in Callers, id \in ChatIds, mid \in MessageIds,
        bodyOk \in BOOLEAN : Post(caller, id, mid, bodyOk)
  \/ DayPasses

SpecPost == InitPost /\ [][NextPost]_vars

\* ------------------------------------------------------- specification
Next ==
  \/ ToolkitsResponseOk
  \/ ToolkitsResponseFail
  \/ FetchErrorTimerFires
  \/ \E s \in Slugs : HandleToggle(s)
  \/ \E s \in Slugs : CardTryAgain(s)
  \/ \E s \in Slugs : CardHandleConnect(s)
  \/ \E s \in Slugs, lv \in BOOLEAN : CardInitiateOk(s, lv)
  \/ \E s \in Slugs, lv \in BOOLEAN : CardInitiateFail(s, lv)
  \/ \E s \in Slugs : CardCancel(s)
  \/ \E c \in ConnIds : CardFirstTimerFires(c)
  \/ \E c \in ConnIds : CardPollTimerFires(c)
  \/ \E c \in ConnIds, r \in Responses : CardStatusResponse(c, r)
  \/ \E s \in Slugs : PanelHandleConnectTool(s)
  \/ \E s \in Slugs : PanelInitiateOk(s)
  \/ \E s \in Slugs : PanelInitiateFail(s)
  \/ \E c \in ConnIds : PanelFirstTimerFires(c)
  \/ \E c \in ConnIds : PanelPollTimerFires(c)
  \/ \E c \in ConnIds, r \in Responses : PanelStatusResponse(c, r)
  \/ \E c \in ConnIds : PanelResetTimerFires(c)
  \/ PanelRefreshTimerFires
  \/ \E ok \in BOOLEAN : PanelToolkitsResponse(ok)
  \/ \E s \in Slugs : InlineHandleConnectTool(s)
  \/ \E s \in Slugs : InlineInitiateOk(s)
  \/ \E s \in Slugs : InlineInitiateFail(s)
  \/ \E s \in Slugs : InlineResetTimerFires(s)
  \/ \E ok \in BOOLEAN : InlineToolkitsResponse(ok)

Spec == Init /\ [][Next]_vars

\* the chat, with the steps of the toolbar that change what the registry
\* and the enabled set hold
NextChat ==
  \/ ChatManualTimerFires
  \/ \E n \in 1..MaxIssued : ChatToolkitsServed(n)
  \/ \E n \in 1..MaxIssued, r \in FetchResults : ChatToolkitsResponse(n, r)
  \/ ChatSend
  \/ \E i \in 1..MaxRequests, ok \in BOOLEAN : ChatRouteExecute(i, ok)
  \/ ToolkitsResponseOk
  \/ \E s \in Slugs : HandleToggle(s)
  \/ \E s \in Slugs : CardHandleConnect(s)
  \/ \E s \in Slugs, lv \in BOOLEAN : CardInitiateOk(s, lv)

SpecChat == InitChat /\ [][NextChat]_vars

\* the chat, mounted and unmounted, beside the ToolActivation without
\* polling, which publishes 'toolConnected' when a connection is initiated
\* (the steps of ToolActivation that touch neither the chat nor the events
\* are left to Spec)
InitBus == Init /\ scene = "inline"

NextBus ==
  \/ ChatMount
  \/ ChatUnmount
  \/ ChatManualTimerFires
  \/ \E n \in 1..MaxIssued : ChatToolkitsServed(n)
  \/ \E n \in 1..MaxIssued, r \in FetchResults : ChatToolkitsResponse(n, r)
  \/ \E s \in Slugs : InlineHandleConnectTool(s)
  \/ \E s \in Slugs : InlineInitiateOk(s)

SpecBus == InitBus /\ [][NextBus]_vars

\* the connection flow of a build in which the auth configuration of some
\* slug is missing
InitConfig ==
  /\ InitFlow
  /\ env \in (SUBSET Slugs) \ {Slugs}
  /\ configErrors = {}
  /\ InitRest
  /\ chat = NoChat
  /\ llm = <<>>
  /\ message = <<>>
  /\ availableTools = {}
  /\ parsed = NoParsed
  /\ reg = NoReg

NextConfig ==
  \/ Next
  \/ \E s \in Slugs : CardConfigError(s)
  \/ \E s \in Slugs : PanelConfigError(s)
  \/ \E s \in Slugs : InlineConfigError(s)

SpecConfig == InitConfig /\ [][NextConfig]_vars

\* the toolbar's enabled set and status map: the toggles, the registry
\* fetches, a connection made from a card, and updates through
\* useToolbarState
NextToolbar ==
  \/ ToolkitsResponseOk
  \/ ToolkitsResponseFail
  \/ FetchErrorTimerFires
  \/ \E s \in Slugs : HandleToggle(s)
  \/ \E S \in SUBSET Slugs : SetState(S)
  \/ \E s \in Slugs : CardHandleConnect(s)
  \/ \E s \in Slugs, lv \in BOOLEAN : CardInitiateOk(s, lv)
  \/ \E c \in ConnIds : CardFirstTimerFires(c)
  \/ \E c \in ConnIds, r \in Responses : CardStatusResponse(c, r)

InitToolbar == Init /\ scene = "toolbar"

SpecToolbar == InitToolbar /\ [][NextToolbar]_vars

\* the registry route answering one request
NextRegistry == RegistryGet

SpecRegistry == InitRegistry /\ [][NextRegistry]_vars

\* the parser's functions applied to one message
NextParser == Parse \/ Reparse \/ HasRequirements

SpecParser == InitParser /\ [][NextParser]_vars

\* ------------------------------------------------------------ properties
\* the last status response of attempt c, "" before the first
LastPolled(c) ==
  IF conn[c].polled = <<>> THEN "" ELSE conn[c].polled[Len(conn[c].polled)]

\* every response of attempt c so far reported a status still in progress
NeverTerminal(c) ==
  /\ conn[c].polled # <<>>
  /\ \A i \in 1..Len(conn[c].polled) : conn[c].polled[i] \in NonTerminal

\* 'toolConnected' events dispatched for attempt c
Published(c) == Cardinality({i \in 1..Len(events) : events[i].cid = c})

\* this step is the arrival of a status response of attempt c
ResponseArrives(c) == Len(conn'[c].polled) = Len(conn[c].polled) + 1

\* C1: an attempt whose every polled status is INITIALIZING or INITIATED
\* is, once the client-side timeout has fired, in a timed-out terminal state
\* with no status check in flight or scheduled.
C1_TimeoutEndsPolling ==
  \A c \in ConnIds :
    (conn[c].timedOut /\ NeverTerminal(c)) =>
      (conn[c].outcome = "timedout" /\ Pending(c) = 0)

\* C2: after Cancel on a toolbar card, and until the user starts a new
\* attempt, the card is idle and no status check of an attempt of that card
\* is in flight or scheduled.
C2_CancelStopsChecks ==
  \A s \in Slugs :
    (card[s].mounted /\ card[s].cancelled) =>
      /\ card[s].connectionStatus = "idle"
      /\ \A c \in ConnIds :
           (conn[c].comp = "card" /\ conn[c].slug = s /\ conn[c].live)
             => Pending(c) = 0

\* C3: a status response that arrives for an attempt the card no longer
\* follows (cancelled or superseded: activeConnectionId is not its id)
\* changes no displayed status and schedules no further check.
C3_LateResponseDiscarded ==
  [][\A c \in ConnIds :
       (/\ conn[c].comp = "card" /\ conn[c].live
        /\ ResponseArrives(c)
        /\ card[conn[c].slug].activeConnectionId # c)
       => (/\ card'[conn[c].slug].connectionStatus
                = card[conn[c].slug].connectionStatus
           /\ conn'[c].pollTimer = conn[c].pollTimer)]_vars

\* C4: once a status check of an attempt has reported ACTIVE, the attempt is
\* active (card) / success (panel), its listener has been called, and no
\* status check of it is in flight or scheduled.
C4_ActiveEndsPolling ==
  \A c \in ConnIds :
    LastPolled(c) = "ACTIVE" =>
      /\ conn[c].outcome = (IF conn[c].comp = "card" THEN "active"
                                                     ELSE "success")
      /\ conn[c].notified = 1
      /\ Pending(c) = 0

\* an attempt polled as in progress first and ACTIVE after
C4_Witness ==
  \E c \in ConnIds :
    /\ Len(conn[c].polled) >= 2 /\ LastPolled(c) = "ACTIVE"
    /\ \E d \in ConnIds : d # c /\ Pending(d) > 0

\* the terminal state a component has for a FAILED or EXPIRED attempt
FailureState(comp, r) ==
  IF comp = "card" THEN (IF r = "FAILED" THEN "failed" ELSE "expired")
  ELSE "error"

\* C5 (as the code has it): once a status check of an attempt has reported
\* FAILED or EXPIRED, the attempt is in a terminal failure state (failed or
\* expired, matching, on the toolbar card; error for both in the polling
\* ToolActivation), no status check of it is in flight or scheduled, and the
\* step that received the report started no new attempt.
C5_FailureEndsPolling ==
  [][\A c \in ConnIds :
       LET r == conn'[c].polled[Len(conn'[c].polled)]
       IN (conn'[c].polled # <<>> /\ r \in {"FAILED", "EXPIRED"}) =>
            /\ conn'[c].outcome = FailureState(conn'[c].comp, r)
            /\ conn'[c].firstTimer + conn'[c].pollTimer + conn'[c].req = 0
            /\ ResponseArrives(c) =>
                 (initReq' = initReq /\ nextConn' = nextConn)]_vars

\* the polling ToolActivation has received EXPIRED for an attempt it had
\* polled as still in progress before
C5_Witness ==
  \E c \in ConnIds :
    /\ Len(conn[c].polled) >= 2
    /\ conn[c].polled[1] \in NonTerminal
    /\ LastPolled(c) = "EXPIRED"
    /\ conn[c].comp = "panel"

\* C5 (as stated): FAILED leaves the attempt failed and EXPIRED leaves it
\* expired, in whichever component polls it.
C5_MatchingTerminalState ==
  \A c \in ConnIds :
    /\ LastPolled(c) = "FAILED" => conn[c].outcome = "failed"
    /\ LastPolled(c) = "EXPIRED" => conn[c].outcome = "expired"

\* C6: after a status check of an attempt ended in a transient failure (the
\* fetch threw, or the response was not ok), the attempt is not failed and
\* its next status check is in flight or scheduled.
C6_TransientFailureRetried ==
  \A c \in ConnIds :
    LastPolled(c) \in {NETERR, HTTPERR} =>
      (conn[c].outcome # "failed" /\ Pending(c) > 0)

\* C7: of one connection id at most one status check is in flight or
\* scheduled: the next is armed only when the previous has completed.
C7_OneCheckAtATime ==
  \A c \in ConnIds : Pending(c) <= 1

\* a repeated check of an attempt is in flight while the other attempt's
\* check is in flight too
C7_Witness ==
  \E c, d \in ConnIds :
    c # d /\ conn[c].req = 1 /\ conn[c].polls >= 2 /\ conn[d].req = 1

\* C8: the arrival of a status response of a card's attempt leaves every
\* attempt of another slug as it was: the status its card shows and its
\* status checks in flight or scheduled.
C8_SlugsIndependent ==
  [][\A c, d \in ConnIds :
       (/\ conn[c].comp = "card" /\ ResponseArrives(c)
        /\ conn[d].comp = "card" /\ conn[d].slug # conn[c].slug)
       => (/\ card'[conn[d].slug].connectionStatus
                = card[conn[d].slug].connectionStatus
           /\ conn'[d].firstTimer + conn'[d].pollTimer + conn'[d].req
                = Pending(d))]_vars

\* C9: for an attempt polled INITIATED, INITIATED, ACTIVE exactly one
\* 'toolConnected' event was dispatched, it carries the attempt's slug, and
\* no event of an attempt is dispatched before its ACTIVE was polled.
C9_PublishedOnceOnActive ==
  \A c \in ConnIds :
    /\ conn[c].polled = <<"INITIATED", "INITIATED", "ACTIVE">> =>
         Published(c) = 1
    /\ \A i \in 1..Len(events) :
         events[i].cid = c =>
           (events[i].toolSlug = conn[c].slug /\ LastPolled(c) = "ACTIVE")

\* C10: an attempt whose status check reported ACTIVE, FAILED or EXPIRED
\* has had its 'toolConnected' event dispatched.
C10_TerminalPublishes ==
  \A c \in ConnIds : LastPolled(c) \in Terminal => Published(c) >= 1

\* C11: switching a slug off while its card is checking an attempt leaves
\* the attempt and its pending check as they are; and when the check of an
\* attempt that the card is checking, its slug switched off, reports a
\* terminal status, the 'toolConnected' event of the attempt has been
\* dispatched and the slug is not actionable, whatever the registry reports.
C11_ToggledOffStillNotifies ==
  [][\A c \in ConnIds :
       LET s == conn[c].slug
           checking == conn[c].comp = "card" /\ CardIsChecking(s, c)
       IN
       /\ (checking /\ s \in enabledTools
             /\ s \notin enabledTools') => conn'[c] = conn[c]
       /\ (/\ checking /\ s \notin enabledTools
           /\ ResponseArrives(c)
           /\ conn'[c].polled[Len(conn'[c].polled)] \in Terminal)
          => (Published(c)' >= 1 /\ ~IsActionable(s)')]_vars

\* C12: every chat request carries the toolbar's enabled set, and the tools
\* the route hands to the model for it belong to toolkits that were enabled
\* and connected when the request was sent.
C12_ToolsEnabledAndConnected ==
  \A i \in 1..Len(llm) :
    /\ llm[i].enabledToolkits = llm[i].enabledAtSend
    /\ llm[i].answered =>
         llm[i].tools \subseteq
           (llm[i].enabledAtSend \cap llm[i].connectedAtSend)

\* C13: a toolkit is reported connected only if the user has an ACTIVE
\* connected account for it
C13_OnlyActiveIsConnected ==
  reg.asked =>
    \A s \in DOMAIN reg.toolkits :
      reg.toolkits[s].isConnected =>
        \E i \in 1..Len(reg.accounts) :
          /\ ToUpperCase(reg.accounts[i].slug) = s
          /\ reg.accounts[i].status = "ACTIVE"

\* C14: when the accounts lookup fails the fetch still succeeds and lists
\* every toolkit whose listing succeeded, each not connected and without a
\* connection id
C14_LookupFailureTolerated ==
  (reg.asked /\ ~reg.lookupOk) =>
    /\ reg.status = 200
    /\ DOMAIN reg.toolkits = reg.getOk
    /\ \A s \in DOMAIN reg.toolkits :
         ~reg.toolkits[s].isConnected /\ reg.toolkits[s].connectionId = 0

C14_Witness ==
  /\ reg.asked /\ ~reg.lookupOk
  /\ reg.getOk = SUPPORTED_TOOLKITS
  /\ \E i \in 1..Len(reg.accounts) :
       reg.accounts[i].slug = "gmail" /\ reg.accounts[i].status = "ACTIVE"
  /\ DOMAIN reg.toolkits = SUPPORTED_TOOLKITS

\* C15: after a failed registry fetch the toolbar issues the fetch again
\* when the 3 s delay has passed
C15_FetchRetriedAfterDelay ==
  [][tb'.errTimers < tb.errTimers => tb'.fetches > tb.fetches]_vars

\* the auth configuration table of the component the run follows
SceneTable ==
  IF scene = "toolbar" THEN TOOLKIT_AUTH_CONFIG ELSE PANEL_TOOLKIT_AUTH_CONFIG

\* slug s has no configuration identifier in the component the run follows
NoConfigId(s) == s \notin SceneTable \/ s \notin env

\* C16: a slug without a configuration identifier never gets an initiate
\* request, a connection attempt (hence no polling) or a change of its
\* connection state, failure states included; the configuration error is
\* shown for such slugs only
C16_ConfigErrorBeforeRequest ==
  /\ \A s \in Slugs :
       NoConfigId(s) =>
         /\ \A k \in InitKeys : k[2] = s => initReq[k] = 0
         /\ \A c \in ConnIds : conn[c].slug # s
         /\ card[s].connectionStatus = "idle" /\ ~card[s].isConnecting
         /\ panel.connectionStatus[s] = "none"
         /\ inl.connectionStatus[s] = "none"
         /\ s \notin panel.connectingTools /\ s \notin inl.connectingTools
  /\ \A e \in configErrors : NoConfigId(e[2])

\* a configuration error was shown for one slug while the other slug, which
\* has its identifier, got a connection attempt
C16_Witness ==
  \E s \in Slugs, c \in ConnIds :
    /\ \E comp \in {"card", "panel", "inline"} : <<comp, s>> \in configErrors
    /\ conn[c].comp # "none" /\ conn[c].slug # s

\* slug s is listed in the slug list c of a marker: between two commas (or
\* the ends of the list) stands s alone, but for blanks around it
ListedIn(c, s) ==
  \E a \in 1..Len(c), b \in 1..Len(c) :
    /\ a = 1 \/ c[a - 1] = COMMA
    /\ b = Len(c) \/ c[b + 1] = COMMA
    /\ \E k \in a..b : c[k] = s /\ \A x \in (a..b) \ {k} : c[x] = SP

\* the slugs listed in the markers of msg
ListedSlugs(msg) ==
  {s \in SlugTokens :
     \E m \in Range(MatchAll(msg, 1)) : ListedIn(Group(msg, m), s)}

\* C17: requiredTools holds exactly the known tools whose slug is listed,
\* in the same case, in some marker of the message, each of them once
C17_ExactlyTheListedKnownTools ==
  parsed.called =>
    LET r == parsed.result.requiredTools
    IN /\ \A i \in 1..Len(r), j \in 1..Len(r) : r[i] = r[j] => i = j
       /\ Range(r) = Range(availableTools) \cap ListedSlugs(message)

\* three markers, GMAIL listed in two of them, with a slug in another case
\* and a slug of no known tool: GMAIL is returned, once
C17_Witness ==
  /\ parsed.called
  /\ Len(MatchAll(message, 1)) >= 3
  /\ \E m, n \in Range(MatchAll(message, 1)) :
       m # n /\ ListedIn(Group(message, m), "GMAIL")
             /\ ListedIn(Group(message, n), "GMAIL")
  /\ {"gmail", "GITHUB"} \subseteq ListedSlugs(message)
  /\ parsed.result.requiredTools = <<"GMAIL">>

\* C18: the result is null exactly when the message has no marker or no
\* listed slug is the slug of a known tool; a result has a tool
C18_NullIffNothingResolves ==
  parsed.called =>
    /\ parsed.result.isNull <=>
         \/ MatchAll(message, 1) = <<>>
         \/ Range(availableTools) \cap ListedSlugs(message) = {}
    /\ ~parsed.result.isNull => parsed.result.requiredTools # <<>>

\* a message with a marker whose slugs are all unknown gave null
C18_Witness ==
  /\ parsed.called /\ parsed.result.isNull
  /\ MatchAll(message, 1) # <<>>
  /\ ListedSlugs(message) # {}
  /\ availableTools # <<>>

\* C19: the cleaned text of a result holds no marker: parsing it again
\* finds none
C19_CleanedTextHasNoMarker ==
  parsed.reparsed => parsed.markers = 0

\* the slug list of match m holds blanks and commas only
EmptySlugList(msg, m) ==
  \A k \in 1..Len(Group(msg, m)) : Group(msg, m)[k] \in {SP, COMMA}

\* C20: a message whose markers all enclose an empty or blank slug list
\* parses to null and is reported to hold no requirement
C20_EmptySlugListIsNoMatch ==
  (/\ parsed.called /\ parsed.tested
   /\ MatchAll(message, 1) # <<>>
   /\ \A m \in Range(MatchAll(message, 1)) : EmptySlugList(message, m))
  => (parsed.result.isNull /\ ~parsed.has)

\* C21: in every toolkit record of the registry's response a connection id
\* is present exactly when the toolkit is reported connected
C21_ConnectionIdIffConnected ==
  reg.asked =>
    \A s \in DOMAIN reg.toolkits :
      reg.toolkits[s].isConnected <=> reg.toolkits[s].connectionId # 0

\* a response listing one toolkit connected and another not connected
C21_Witness ==
  /\ reg.asked
  /\ \E s, u \in DOMAIN reg.toolkits :
       /\ reg.toolkits[s].isConnected /\ reg.toolkits[s].connectionId # 0
       /\ ~reg.toolkits[u].isConnected /\ reg.toolkits[u].connectionId = 0

\* C22: the status map has an entry for exactly the enabled slugs, each the
\* value the last registry list gave, and a slug is actionable exactly when
\* it is enabled and its entry says connected
C22_StatusMapFollowsEnabled ==
  \A s \in Slugs :
    /\ MapHas(enabledToolkitsWithStatus, s) <=> s \in enabledTools
    /\ MapHas(enabledToolkitsWithStatus, s) =>
         enabledToolkitsWithStatus[s] = MapValue(tb.toolkits[s])
    /\ IsActionable(s) <=>
         (s \in enabledTools /\ enabledToolkitsWithStatus[s] = "true")

\* C23: the previous messages put in the model context are never more than
\* MAX_CHAT_MESSAGES, 0 included, and never more than 1
C23_ContextWithinMaxMessages ==
  post.response = "stream" =>
    post.context <= post.maxMessages /\ post.context <= 1

\* the step handles a POST whose caller has no session, or whose chat exists
\* and belongs to another user
RefusedPostStep ==
  /\ post'.handled = post.handled + 1
  /\ \/ post'.caller = 0
     \/ db.chats[post'.id] \notin {0, post'.caller}

\* C29, as stated: such a POST is answered unauthorized or forbidden and
\* writes nothing
C29_AnsweredUnauthorizedOrForbidden ==
  [][RefusedPostStep =>
       /\ post'.response \in {"unauthorized", "forbidden"}
       /\ db' = db /\ ~post'.streamed]_vars

\* C29: such a POST is answered with an error (unauthorized or forbidden,
\* or bad_request or rate_limit from the checks made before) and writes
\* nothing: no chat, message or stream id is saved, no stream is started
C29_RefusedPostWritesNothing ==
  [][RefusedPostStep =>
       /\ post'.response \in
            {"unauthorized", "forbidden", "bad_request", "rate_limit"}
       /\ db' = db /\ ~post'.streamed]_vars

\* a POST for a chat of another user was answered forbidden, after a POST
\* that saved that chat
C29_Witness ==
  /\ post.response = "forbidden" /\ post.caller # 0
  /\ db.chats[post.id] \notin {0, post.caller}
  /\ db.streams[post.id] > 0

\* C30: the user messages a user has saved in the last 24 hours are never
\* more than maxMessagesPerDay
C30_DailyLimitEnforced ==
  \A u \in Users : MessageCountByUserId(db, u) <= MaxMessagesPerDay

\* C24: the chat's listener gets no event published before it was added
\* (mounting starts no refresh) and none after it was removed (an unmounted
\* chat does not change); a refresh starts only in a step that publishes an
\* event while the chat is mounted
C24_NoReplay ==
  [][/\ (~chat.mounted /\ chat'.mounted) =>
          \A f \in chat'.inflight : f.kind # "refresh"
     /\ (~chat.mounted /\ ~chat'.mounted) => chat' = chat
     /\ (\E f \in chat'.inflight \ chat.inflight :
            f.kind = "refresh" /\ ~f.served)
          => (chat.mounted /\ Len(events') = Len(events) + 1)]_vars

\* the chat was mounted after an event was published: its two mount
\* fetches are in flight and it has started no other
C24_Witness ==
  /\ chat.mounted /\ Len(events) >= 1
  /\ chat.issued = 2 /\ Cardinality(chat.inflight) = 2
  /\ \A f \in chat.inflight : f.kind # "refresh"

\* C25: the response of a fetch issued before the one whose response set
\* enabledToolkits last does not change enabledToolkits
C25_OlderResponseNeverOverwrites ==
  [][\A f \in chat.inflight :
       (/\ chat.mounted /\ chat'.mounted
        /\ f.served /\ f \notin chat'.inflight
        /\ f.seq < chat.applied)
       => chat'.enabledToolkits = chat.enabledToolkits]_vars

\* ------------------------------------------------ the User table's queries
\* queries.ts: each query function awaits its statements one after the other,
\* outside any transaction; the statements of calls that run at the same
\* time interleave. A call is a record of user.calls: op, the statement it is
\* at, its arguments, and how it ended.

\* the rows that hold GitHub id g, Google id g
WithGithubId(t, g) == {u \in UserRows : t[u].present /\ t[u].githubId = g}
WithGoogleId(t, g) == {u \in UserRows : t[u].present /\ t[u].googleId = g}

\* the id the database gives the next row inserted
FreshId(t) ==
  CHOOSE u \in UserRows :
    ~t[u].present /\ \A v \in UserRows : v < u => t[v].present

\* 0002_unique_github_id.sql: no other row than u may hold GitHub id g
Unique_github_idViolated(us, u, g) ==
  us.unique_github_id /\ WithGithubId(us.table, g) \ {u} # {}

\* the call p ended: returned (ok) or threw (error)
Ended(c, r) == [c EXCEPT !.pc = "idle", !.result = r]

\* createGuestUser: one insert
CreateGuestUser ==
  /\ \E u \in UserRows : ~user.table[u].present
  /\ user' = [user EXCEPT
                !.table[FreshId(user.table)] =
                   [present |-> TRUE, githubId |-> 0, googleId |-> 0,
                    guestEmail |-> TRUE]]
  /\ UNCHANGED offUser

\* createOrUpdateGitHubUser, called with GitHub id g and with or without an
\* email: the select by GitHub id
CreateOrUpdateGitHubUser(p, g, e) ==
  /\ user.calls[p].pc = "idle"
  /\ user' = [user EXCEPT
                !.calls[p] =
                   [op |-> "createOrUpdateGitHubUser",
                    pc |-> IF WithGithubId(user.table, g) # {}
                           THEN "update" ELSE "insert",
                    guestUserId |-> 0, id |-> g, email |-> e,
                    result |-> "none"]]
  /\ UNCHANGED offUser

\* createOrUpdateGitHubUser: the update of the rows that hold the GitHub id
CreateOrUpdateGitHubUserUpdate(p) ==
  LET c == user.calls[p]
  IN /\ c.op = "createOrUpdateGitHubUser" /\ c.pc = "update"
     /\ user' = [user EXCEPT
                   !.table = [u \in UserRows |->
                                IF u \in WithGithubId(user.table, c.id)
                                THEN [@[u] EXCEPT !.guestEmail = FALSE]
                                ELSE @[u]],
                   !.calls[p] = Ended(c, "ok")]
     /\ UNCHANGED offUser

\* createOrUpdateGitHubUser: the insert of a new row with the GitHub id; a
\* violated constraint is thrown as a ChatSDKError
CreateOrUpdateGitHubUserInsert(p) ==
  LET c == user.calls[p]
  IN /\ c.op = "createOrUpdateGitHubUser" /\ c.pc = "insert"
     /\ \E u \in UserRows : ~user.table[u].present
     /\ user' = IF Unique_github_idViolated(user, 0, c.id)
                THEN [user EXCEPT !.calls[p] = Ended(c, "error")]
                ELSE [user EXCEPT
                        !.table[FreshId(user.table)] =
                           [present |-> TRUE, githubId |-> c.id,
                            googleId |-> 0, guestEmail |-> FALSE],
                        !.calls[p] = Ended(c, "ok")]
     /\ UNCHANGED offUser

\* upgradeGuestToGitHubUser for the user id u of the guest-upgrade-id cookie:
\* the select by GitHub id, 'A user with this GitHub account already exists'
UpgradeGuestToGitHubUser(p, u, g, e) ==
  /\ user.calls[p].pc = "idle"
  /\ LET c == [op |-> "upgradeGuestToGitHubUser", pc |-> "guest",
               guestUserId |-> u, id |-> g, email |-> e, result |-> "none"]
     IN user' = [user EXCEPT
                   !.calls[p] = IF WithGithubId(user.table, g) # {}
                                THEN Ended(c, "error") ELSE c]
  /\ UNCHANGED offUser

\* the where clause of the guest select of upgradeGuestToGitHubUser
IsGitHubGuest(row) == row.present /\ row.githubId = 0 /\ row.guestEmail

\* the where clause of the guest select of upgradeGuestToGoogleUser
IsGoogleGuest(row) == row.present /\ row.googleId = 0 /\ row.guestEmail

\* upgradeGuestToGitHubUser: the select of the guest, 'Guest user not found
\* or already upgraded'
UpgradeGuestToGitHubUserGuest(p) ==
  LET c == user.calls[p]
  IN /\ c.op = "upgradeGuestToGitHubUser" /\ c.pc = "guest"
     /\ user' = [user EXCEPT
                   !.calls[p] =
                      IF IsGitHubGuest(user.table[c.guestUserId])
                      THEN [c EXCEPT !.pc = "update"]
                      ELSE Ended(c, "error")]
     /\ UNCHANGED offUser

\* upgradeGuestToGitHubUser: the update of the row with the guest's id; the
\* email is githubData.email || guestUser.email
UpgradeGuestToGitHubUserUpdate(p) ==
  LET c == user.calls[p]
  IN /\ c.op = "upgradeGuestToGitHubUser" /\ c.pc = "update"
     /\ user' = IF Unique_github_idViolated(user, c.guestUserId, c.id)
                THEN [user EXCEPT !.calls[p] = Ended(c, "error")]
                ELSE [user EXCEPT
                        !.table[c.guestUserId] =
                           [@ EXCEPT !.githubId = c.id,
                                     !.guestEmail = ~c.email],
                        !.calls[p] = Ended(c, "ok")]
     /\ UNCHANGED offUser

\* upgradeGuestToGoogleUser: the select by Google id
UpgradeGuestToGoogleUser(p, u, g, e) ==
  /\ user.calls[p].pc = "idle"
  /\ LET c == [op |-> "upgradeGuestToGoogleUser", pc |-> "guest",
               guestUserId |-> u, id |-> g, email |-> e, result |-> "none"]
     IN user' = [user EXCEPT
                   !.calls[p] = IF WithGoogleId(user.table, g) # {}
                                THEN Ended(c, "error") ELSE c]
  /\ UNCHANGED offUser

\* upgradeGuestToGoogleUser: the select of the guest
UpgradeGuestToGoogleUserGuest(p) ==
  LET c == user.calls[p]
  IN /\ c.op = "upgradeGuestToGoogleUser" /\ c.pc = "guest"
     /\ user' = [user EXCEPT
                   !.calls[p] =
                      IF IsGoogleGuest(user.table[c.guestUserId])
                      THEN [c EXCEPT !.pc = "update"]
                      ELSE Ended(c, "error")]
     /\ UNCHANGED offUser

\* upgradeGuestToGoogleUser: the update of the row with the guest's id
UpgradeGuestToGoogleUserUpdate(p) ==
  LET c == user.calls[p]
  IN /\ c.op = "upgradeGuestToGoogleUser" /\ c.pc = "update"
     /\ user' = [user EXCEPT
                   !.table[c.guestUserId] =
                      [@ EXCEPT !.googleId = c.id, !.guestEmail = ~c.email],
                   !.calls[p] = Ended(c, "ok")]
     /\ UNCHANGED offUser

\* the database as the migrations leave it. PostgreSQL takes a WHERE clause
\* on CREATE UNIQUE INDEX, not on ALTER TABLE ... ADD CONSTRAINT ... UNIQUE:
\* the statement of 0002_unique_github_id.sql is rejected and leaves no
\* constraint (FALSE); TRUE is a database given the constraint another way
InitUsers ==
  /\ InitFlow /\ scene = "toolbar"
  /\ env = Slugs
  /\ configErrors = {}
  /\ chat = NoChat
  /\ llm = <<>>
  /\ message = <<>>
  /\ availableTools = {}
  /\ parsed = NoParsed
  /\ reg = NoReg
  /\ enabledToolkitsWithStatus = [s \in Slugs |-> "none"]
  /\ db = EmptyDb
  /\ post = NoPost
  /\ retry = NoRetry
  /\ \E b \in BOOLEAN : user = [NoUsers EXCEPT !.unique_github_id = b]

NextUsers ==
  \/ CreateGuestUser
  \/ \E p \in Calls, g \in GithubIds, e \in BOOLEAN :
       CreateOrUpdateGitHubUser(p, g, e)
  \/ \E p \in Calls : CreateOrUpdateGitHubUserUpdate(p)
  \/ \E p \in Calls : CreateOrUpdateGitHubUserInsert(p)
  \/ \E p \in Calls, u \in UserRows, g \in GithubIds, e \in BOOLEAN :
       UpgradeGuestToGitHubUser(p, u, g, e)
  \/ \E p \in Calls : UpgradeGuestToGitHubUserGuest(p)
  \/ \E p \in Calls : UpgradeGuestToGitHubUserUpdate(p)
  \/ \E p \in Calls, u \in UserRows, g \in GoogleIds, e \in BOOLEAN :
       UpgradeGuestToGoogleUser(p, u, g, e)
  \/ \E p \in Calls : UpgradeGuestToGoogleUserGuest(p)
  \/ \E p \in Calls : UpgradeGuestToGoogleUserUpdate(p)

SpecUsers == InitUsers /\ [][NextUsers]_vars

\* C26: after any interleaving of GitHub sign-ins and guest upgrades, at
\* most one user record is linked to a given GitHub id
C26_OneRecordPerGithubId ==
  \A g \in GithubIds : Cardinality(WithGithubId(user.table, g)) <= 1

\* a user that has no linked GitHub or Google account
IsGuest(row) == row.present /\ row.githubId = 0 /\ row.googleId = 0

UpgradeOps == {"upgradeGuestToGitHubUser", "upgradeGuestToGoogleUser"}

\* C27: a guest upgrade changes a user record only if that user has no
\* linked GitHub or Google account, and then changes no other record and
\* keeps the user's id; a guest upgrade that raises an error changes no
\* user record
C27_UpgradeModifiesOnlyGuests ==
  [][\A p \in Calls :
       LET c == user.calls[p]
       IN (c.op \in UpgradeOps /\ user'.calls[p] # c)
          => /\ user'.table # user.table
                  => /\ IsGuest(user.table[c.guestUserId])
                     /\ user'.calls[p].result = "ok"
                     /\ \A u \in UserRows :
                          /\ u # c.guestUserId
                               => user'.table[u] = user.table[u]
                          /\ user'.table[u].present = user.table[u].present
             /\ user'.calls[p].result = "error"
                  => user'.table = user.table]_vars

\* --------------------------------------------------------------- withRetry
\* retry.plan[n] is what the n-th invocation of the operation does: it
\* resolves (ok), rejects with an error whose message names the connection,
\* or rejects with another error

\* the errors that withRetry retries, whatever the attempt
AnyError(error) == error # "ok"

\* isConnectionError: the message includes ECONNRESET, ECONNREFUSED, timeout
\* or connection
IsConnectionError(error) == error = "connection"

\* for (let attempt = 1; attempt <= maxRetries; ...): the body is entered
\* and the operation invoked
WithRetryAttempt ==
  /\ retry.pc = "loop" /\ retry.attempt <= retry.maxRetries
  /\ retry' = [retry EXCEPT !.pc = "operation", !.calls = @ + 1]
  /\ UNCHANGED offRetry

\* the loop's condition fails: throw lastError
WithRetryExhausted ==
  /\ retry.pc = "loop" /\ retry.attempt > retry.maxRetries
  /\ retry' = [retry EXCEPT !.pc = "done", !.settled = "thrown"]
  /\ UNCHANGED offRetry

\* return await operation(): the operation resolved
OperationResolves ==
  /\ retry.pc = "operation" /\ retry.plan[retry.attempt] = "ok"
  /\ retry' = [retry EXCEPT !.pc = "done", !.settled = "returned"]
  /\ UNCHANGED offRetry

\* catch (error): the operation rejected; wait attempt * 1000 ms and go on,
\* or throw the error
OperationRejects ==
  /\ retry.pc = "operation" /\ retry.plan[retry.attempt] # "ok"
  /\ LET error == retry.plan[retry.attempt]
     IN retry' = IF IsConnectionError(error)
                      /\ retry.attempt < retry.maxRetries
                  THEN [retry EXCEPT !.lastError = error, !.pc = "delay"]
                  ELSE [retry EXCEPT !.lastError = error, !.pc = "done",
                                     !.settled = "thrown"]
  /\ UNCHANGED offRetry

\* the delay's timer fires: continue, attempt++
RetryDelayElapses ==
  /\ retry.pc = "delay"
  /\ retry' = [retry EXCEPT !.pc = "loop", !.attempt = @ + 1]
  /\ UNCHANGED offRetry

\* withRetry called with maxRetries from 0 on, on an operation that settles
\* each time it is invoked
InitRetry ==
  /\ InitFlow /\ scene = "toolbar"
  /\ env = Slugs
  /\ configErrors = {}
  /\ chat = NoChat
  /\ llm = <<>>
  /\ message = <<>>
  /\ availableTools = {}
  /\ parsed = NoParsed
  /\ reg = NoReg
  /\ enabledToolkitsWithStatus = [s \in Slugs |-> "none"]
  /\ db = EmptyDb
  /\ post = NoPost
  /\ user = NoUsers
  /\ \E m \in 0..MaxRetries, plan \in [1..MaxRetries -> Outcomes] :
       retry = [NoRetry EXCEPT !.maxRetries = m, !.plan = plan,
                               !.pc = "loop"]

NextRetry ==
  \/ WithRetryAttempt
  \/ WithRetryExhausted
  \/ OperationResolves
  \/ OperationRejects
  \/ RetryDelayElapses

\* every await of withRetry resumes: the operation settles, the timer fires
SpecRetry == InitRetry /\ [][NextRetry]_vars /\ WF_vars(NextRetry)

\* the invocations before the last one all failed with a connection error
OnlyConnectionErrorsBefore(n) ==
  \A i \in 1..MaxRetries : i < n => retry.plan[i] = "connection"

\* C28: withRetry invokes the operation at most maxRetries times and ends;
\* it returns at the first invocation that succeeds, waits for a retry only
\* after a connection error with attempts left, throws any other error and
\* the error of the last attempt, and invokes nothing once it has ended
C28_BoundedRetry ==
  /\ [](/\ retry.calls <= retry.maxRetries
        /\ retry.pc = "delay"
             => /\ retry.lastError = "connection"
                /\ retry.attempt < retry.maxRetries
        /\ retry.settled # "none" => OnlyConnectionErrorsBefore(retry.calls)
        /\ retry.settled = "returned" => retry.plan[retry.calls] = "ok"
        /\ (retry.settled = "thrown" /\ retry.calls >= 1)
             => /\ retry.lastError = retry.plan[retry.calls]
                /\ retry.lastError # "ok"
                /\ \/ retry.lastError = "other"
                   \/ retry.calls = retry.maxRetries)
  /\ [][retry.settled # "none" => retry' = retry]_vars
  /\ <>(retry.settled # "none")

\* the operation succeeded at the last attempt allowed, after two retries
C28_Witness ==
  /\ retry.settled = "returned"
  /\ retry.maxRetries = MaxRetries /\ retry.calls = MaxRetries

====
